---------------------------- MODULE Spec2Model ----------------------------
(***************************************************************************)
(* A model of bt-servant-report-sender: the log parser                     *)
(* (src/parsers/log_parser.py), the metrics aggregator                     *)
(* (src/parsers/metrics_aggregator.py), the report models (src/models),    *)
(* the log fetcher (src/services/log_fetcher.py), the report generator     *)
(* (src/services/report_generator.py) and the command line                 *)
(* (src/cli/main.py).                                                      *)
(*                                                                         *)
(* Representation.                                                         *)
(*  - A text is a sequence of tokens (strings); the text it stands for is  *)
(*    the concatenation of its tokens.  str.startswith, slicing after a    *)
(*    prefix, re.search and str.split act on whole tokens.                 *)
(*  - The raw log content is the sequence of its lines                     *)
(*    (str.splitlines()); a raw line records its surrounding whitespace    *)
(*    and the JSON document it holds.                                      *)
(*  - A Decimal is an integer number of units (money: 1/10000 USD, time:   *)
(*    milliseconds).  A Decimal quotient is the exact fraction in lowest   *)
(*    terms, [num, den] (the 28-digit context precision of decimal is not  *)
(*    modelled).                                                           *)
(*  - A dict is a sequence of [k, v] pairs in insertion order.             *)
(*  - A call's outcome is [exc, val]: exc = "none" and the returned value, *)
(*    or the name of the exception raised.                                 *)
(*  - A date is a day number.  The log API is the files it lists, most    *)
(*    recent first, and the status it answers with; an HTTP client is      *)
(*    known by its rank among the clients created.                         *)
(***************************************************************************)
EXTENDS Integers, Sequences, FiniteSets, TLC

VARIABLES
    content,        \* process_logs: log_content, as its lines
    log_entries,    \* list[LogEntry]
    perf_reports,   \* list[PerfReport]
    values,         \* calculate_percentile: values
    percentile,     \* calculate_percentile: percentile
    top_n,          \* identify_bottleneck_spans: top_n
    start_date,     \* report period, as day numbers
    end_date,
    send_email,     \* generate_and_send: send_email
    calls,          \* generate_and_send: the steps entered so far, in order
    today,          \* datetime.now(UTC).date(), as a day number
    report_period,  \* config.report_period
    args,           \* main: the parsed command line
    settings,       \* whether the environment holds every required setting
    server,         \* the log API: what its endpoints answer
    client,         \* LogFetcher._client
    clients,        \* the number of httpx.Client objects created so far
    closed,         \* the clients closed so far, in order
    requests,       \* the HTTP requests issued so far, in order
    pc,             \* position in process_logs, or "call" / "returned"
    ret             \* outcome of the last call: [fn, exc, val]

vars ==
    <<content, log_entries, perf_reports, values, percentile, top_n,
      start_date, end_date, send_email, calls, today, report_period, args,
      settings, server, client, clients, closed, requests, pc, ret>>

\* what lies outside the parser and the aggregator
Environment ==
    <<today, report_period, args, settings, server, client, clients, closed,
      requests>>

---------------------------------------------------------------------------
(* Bounds of the model *)

MaxLines == 3
MaxReports == 4
MaxEntries == 2
MaxValues == 4
MaxValue == 4
MaxTopN == 7
MaxHealthEntries == 32
MaxWarnings == 12

MaxSectionReports == 2
MaxMessages == 2
MaxLevelEntries == 3
MaxUserEntries == 3
MaxIntents == 12
MaxSectionEntries == 2
MaxFiles == 4
MaxClients == 2
MaxRequests == 1

---------------------------------------------------------------------------
(* Outcomes, Decimal, dict *)

\* an argument left out or an attribute not set (None); dates and client
\* identities are positive numbers
None == 0

Return(v) == [exc |-> "none", val |-> v]

Raise(e) == [exc |-> e, val |-> <<>>]

\* name = value, then the statements after it, written as the function
\* [name \in {value} |-> statements]: value is computed once, before the
\* statements run, and they see its result under the name
Bind(statement) == CHOOSE result \in {statement[name] : name \in DOMAIN statement} : TRUE

RECURSIVE GCD(_, _)
GCD(a, b) == IF b = 0 THEN a ELSE GCD(b, a % b)

\* Decimal / int, for a non-negative dividend and a positive divisor.
DecimalDiv(n, d) == LET g == GCD(n, d) IN [num |-> n \div g, den |-> d \div g]

DecimalOf(n) == [num |-> n, den |-> 1]

DecimalLess(a, b) == a.num * b.den < b.num * a.den

Range(s) == {s[i] : i \in 1..Len(s)}

DictHas(d, k) == \E i \in 1..Len(d) : d[i].k = k

DictGet(d, k, default) ==
    IF DictHas(d, k) THEN d[CHOOSE i \in 1..Len(d) : d[i].k = k].v ELSE default

DictSet(d, k, v) ==
    IF DictHas(d, k)
    THEN [i \in 1..Len(d) |-> IF d[i].k = k THEN [k |-> k, v |-> v] ELSE d[i]]
    ELSE Append(d, [k |-> k, v |-> v])

RECURSIVE SumSeq(_)
SumSeq(s) == IF s = <<>> THEN 0 ELSE Head(s) + SumSeq(Tail(s))

RECURSIVE Concat(_)
Concat(ss) == IF ss = <<>> THEN <<>> ELSE Head(ss) \o Concat(Tail(ss))

\* s[:n] for n >= 0
Prefix(s, n) == SubSeq(s, 1, IF n < Len(s) THEN n ELSE Len(s))

\* sorted(items, key=..., reverse=True) over [key, item] pairs: stable, so
\* items with equal keys keep their original relative order.
RECURSIVE InsertDesc(_, _)
InsertDesc(x, s) ==
    IF s = <<>> THEN <<x>>
    ELSE IF DecimalLess(Head(s).key, x.key) THEN <<x>> \o s
    ELSE <<Head(s)>> \o InsertDesc(x, Tail(s))

RECURSIVE SortedReverse(_)
SortedReverse(s) ==
    IF s = <<>> THEN <<>>
    ELSE InsertDesc(s[Len(s)], SortedReverse(SubSeq(s, 1, Len(s) - 1)))

\* sorted(numbers)
RECURSIVE InsertAsc(_, _)
InsertAsc(x, s) ==
    IF s = <<>> THEN <<x>>
    ELSE IF x < Head(s) THEN <<x>> \o s
    ELSE <<Head(s)>> \o InsertAsc(x, Tail(s))

RECURSIVE Sorted(_)
Sorted(s) ==
    IF s = <<>> THEN <<>>
    ELSE InsertAsc(s[Len(s)], Sorted(SubSeq(s, 1, Len(s) - 1)))

---------------------------------------------------------------------------
(* src/models/log_entry.py, src/models/perf_report.py *)

\* LogEntry: the fields without a default, by their JSON names.
LogEntryRequired ==
    {"message", "timestamp", "level", "logger", "client_ip", "cid", "user",
     "schema_version"}

LogEntryKeys == LogEntryRequired \cup {"taskName"}

\* LogEntry.model_validate(data): data is the decoded JSON document of a line.
\* A document that is not an object, lacks a required field or whose
\* timestamp does not parse (timestamp < 0 here) fails validation.
LogEntry_model_validate(data) ==
    IF /\ data.json = "object"
       /\ LogEntryRequired \subseteq data.keys
       /\ data.timestamp >= 0
    THEN Return([message |-> data.message, timestamp |-> data.timestamp,
                 level |-> data.level, user |-> data.user])
    ELSE Raise("ValidationError")

PerfReportRequired ==
    {"user_id", "trace_id", "total_ms", "total_s", "total_input_tokens",
     "total_output_tokens", "total_tokens", "total_cached_input_tokens",
     "total_audio_input_tokens", "total_audio_output_tokens",
     "total_input_cost_usd", "total_output_cost_usd",
     "total_cached_input_cost_usd", "total_audio_input_cost_usd",
     "total_audio_output_cost_usd", "total_cost_usd",
     "grouped_totals_by_intent", "spans"}

\* PerfReport.model_validate(data)
PerfReport_model_validate(data) ==
    IF data.json = "object" /\ PerfReportRequired \subseteq data.keys
    THEN Return([user_id |-> data.user_id, trace_id |-> data.trace_id,
                 total_ms |-> data.total_ms,
                 total_input_cost_usd |-> data.total_input_cost_usd,
                 total_output_cost_usd |-> data.total_output_cost_usd,
                 total_cached_input_cost_usd |-> data.total_cached_input_cost_usd,
                 total_audio_input_cost_usd |-> data.total_audio_input_cost_usd,
                 total_audio_output_cost_usd |-> data.total_audio_output_cost_usd,
                 total_cost_usd |-> data.total_cost_usd,
                 grouped_totals_by_intent |-> data.grouped_totals_by_intent,
                 spans |-> data.spans])
    ELSE Raise("ValidationError")

---------------------------------------------------------------------------
(* The inputs the model draws from *)

IntentTotals(name, cost) == [k |-> name, v |-> [total_cost_usd |-> cost]]

Span(name, duration_ms) == [name |-> name, duration_ms |-> duration_ms]

PayloadObject(keys, user_id, trace_id, total_ms, costs, intents, spans) ==
    [json |-> "object", keys |-> keys, user_id |-> user_id,
     trace_id |-> trace_id, total_ms |-> total_ms,
     total_input_cost_usd |-> costs[1], total_output_cost_usd |-> costs[2],
     total_cached_input_cost_usd |-> costs[3],
     total_audio_input_cost_usd |-> costs[4],
     total_audio_output_cost_usd |-> costs[5], total_cost_usd |-> costs[6],
     grouped_totals_by_intent |-> intents, spans |-> spans]

PayloadOther(json) ==
    [PayloadObject({}, "", "", 0, <<0, 0, 0, 0, 0, 0>>, <<>>, <<>>)
        EXCEPT !.json = json]

\* The JSON documents that may follow the marker, by their text.
PayloadDoc(text) ==
    CASE text = "{r1}" ->
           PayloadObject(PerfReportRequired, "user1", "trace1", 10000,
               <<100, 10, 1, 0, 0, 111>>,
               <<IntentTotals("test-intent", 55)>>,
               <<Span("process_message", 9000), Span("llm_call", 5000)>>)
      [] text = "{r2}" ->
           PayloadObject(PerfReportRequired, "user2", "trace2", 12000,
               <<40, 30, 0, 12, 8, 90>>,
               <<IntentTotals("test-intent", 45), IntentTotals("other-intent", 45)>>,
               <<Span("process_message", 11000), Span("db_lookup", 5000)>>)
      [] text = "{r3}" ->
           PayloadObject(PerfReportRequired, "user1", "trace3", 4000,
               <<60, 40, 5, 0, 0, 105>>,
               <<IntentTotals("other-intent", 55), IntentTotals("third-intent", 50)>>,
               <<Span("s1", 7000), Span("s2", 7000), Span("s3", 3000),
                 Span("s4", 1000), Span("s1", 3000)>>)
      [] text = "{r4}" ->
           PayloadObject(PerfReportRequired, "user3", "trace4", 500,
               <<0, 0, 0, 0, 0, 0>>, <<>>, <<>>)
      [] text = "{r5}" ->
           PayloadObject(PerfReportRequired, "user2", "trace5", 12000,
               <<20, 20, 0, 0, 5, 45>>,
               <<IntentTotals("third-intent", 45)>>,
               <<Span("llm_call", 6000), Span("s5", 2000)>>)
      [] text = "{\"user_id\":\"user1\"}" ->
           [PayloadOther("object") EXCEPT !.keys = {"user_id"}, !.user_id = "user1"]
      [] text = "[]" -> PayloadOther("scalar")
      [] OTHER -> PayloadOther("garbage")

PERF_REPORT_PREFIX == "PerfReport "

RawLine(pad, json, keys, message, level, user, timestamp) ==
    [pad |-> pad, json |-> json, keys |-> keys, message |-> message,
     level |-> level, user |-> user, timestamp |-> timestamp]

ValidLine(message, level, user, timestamp) ==
    RawLine(FALSE, "object", LogEntryKeys, message, level, user, timestamp)

INTENTS_MARKER == "extracted user intents: "

\* The lines most contents are made of.
CoreLines ==
    { ValidLine(<<"text message received.">>, "INFO", "user1", 2),
      ValidLine(<<"[followup] No follow-up question defined">>, "WARNING", "user1", 2),
      ValidLine(<<"request failed">>, "ERROR", "-", 3),
      ValidLine(<<PERF_REPORT_PREFIX, "{r1}">>, "INFO", "user1", 2),
      ValidLine(<<PERF_REPORT_PREFIX, "{r2}">>, "INFO", "user2", 9),
      ValidLine(<<PERF_REPORT_PREFIX, "{r1">>, "INFO", "user1", 2),
      RawLine(TRUE, "object", LogEntryRequired,
              <<INTENTS_MARKER, "a", ", ", "b">>, "INFO", "user3", 1),
      RawLine(FALSE, "object", LogEntryRequired \ {"level"}, <<"no level">>, "", "user1", 2),
      RawLine(FALSE, "garbage", {}, <<>>, "", "", 0),
      RawLine(TRUE, "none", {}, <<>>, "", "", 0) }

\* Further lines, used in short contents only.
EdgeLines ==
    { ValidLine(<<PERF_REPORT_PREFIX, "{r3}">>, "WARNING", "user1", 2),
      ValidLine(<<PERF_REPORT_PREFIX, "{\"user_id\":\"user1\"}">>, "INFO", "user1", 2),
      ValidLine(<<PERF_REPORT_PREFIX, "[]">>, "INFO", "user1", 2),
      ValidLine(<<PERF_REPORT_PREFIX>>, "INFO", "user1", 2),
      ValidLine(<<"see ", PERF_REPORT_PREFIX, "{r1}">>, "INFO", "user2", 2),
      ValidLine(<<"PerfReport", "{r1}">>, "INFO", "", 2),
      ValidLine(<<"language code ", "en", " detected">>, "INFO", "user2", 2),
      RawLine(FALSE, "object", LogEntryKeys, <<"bad timestamp">>, "INFO", "user1", -1),
      RawLine(FALSE, "scalar", {}, <<>>, "", "", 0),
      RawLine(FALSE, "none", {}, <<>>, "", "", 0) }

RawLines == CoreLines \cup EdgeLines

SeqsUpTo(S, n) == UNION {[1..k -> S] : k \in 0..n}

Contents == SeqsUpTo(CoreLines, MaxLines) \cup SeqsUpTo(RawLines, MaxLines - 1)

---------------------------------------------------------------------------
(* src/parsers/log_parser.py *)

\* str.strip() of a raw line
Strip(raw_line) == [raw_line EXCEPT !.pad = FALSE]

\* json.loads(line), for a stripped, non-empty line
json_loads_line(line) ==
    IF line.json = "garbage" THEN Raise("JSONDecodeError") ELSE Return(line)

\* parse_log_line, yielding the decoded document without validating it
parse_log_line_unvalidated(raw_line) ==
    LET line == Strip(raw_line) IN
    IF line.json = "none" THEN <<>>
    ELSE LET data == json_loads_line(line) IN
         IF data.exc # "none" THEN <<>>
         ELSE <<[message |-> data.val.message, timestamp |-> data.val.timestamp,
                 level |-> data.val.level, user |-> data.val.user]>>

\* the body of parse_log_lines' loop for one raw line: the records it yields
parse_log_line(raw_line) ==
    LET line == Strip(raw_line) IN
    IF line.json = "none" THEN <<>>
    ELSE LET data == json_loads_line(line) IN
         IF data.exc # "none" THEN <<>>
         ELSE LET entry == LogEntry_model_validate(data.val) IN
              IF entry.exc # "none" THEN <<>> ELSE <<entry.val>>

\* list(parse_log_lines(content))
RECURSIVE parse_log_lines(_)
parse_log_lines(lines) ==
    IF lines = <<>> THEN <<>>
    ELSE parse_log_line(Head(lines)) \o parse_log_lines(Tail(lines))

\* str.startswith(prefix), for a one-token prefix
StartsWith(text, prefix) == Len(text) >= 1 /\ text[1] = prefix

\* json.loads(json_str) of the text after the marker
json_loads_payload(json_str) ==
    IF Len(json_str) = 1 /\ PayloadDoc(json_str[1]).json # "garbage"
    THEN Return(PayloadDoc(json_str[1]))
    ELSE Raise("JSONDecodeError")

\* extract_perf_report, taking the marker wherever it occurs in the message
extract_perf_report_anywhere(entry) ==
    IF \A i \in 1..Len(entry.message) : entry.message[i] # PERF_REPORT_PREFIX THEN <<>>
    ELSE LET at == CHOOSE i \in 1..Len(entry.message) :
                      /\ entry.message[i] = PERF_REPORT_PREFIX
                      /\ \A j \in 1..(i - 1) : entry.message[j] # PERF_REPORT_PREFIX
             json_str == SubSeq(entry.message, at + 1, Len(entry.message))
             data == json_loads_payload(json_str)
         IN IF data.exc # "none" THEN <<>>
            ELSE LET perf_report == PerfReport_model_validate(data.val) IN
                 IF perf_report.exc # "none" THEN <<>> ELSE <<perf_report.val>>

\* the body of extract_perf_reports' loop for one entry: the reports appended
extract_perf_report(entry) ==
    IF ~StartsWith(entry.message, PERF_REPORT_PREFIX) THEN <<>>
    ELSE LET json_str == Tail(entry.message)
             data == json_loads_payload(json_str)
         IN IF data.exc # "none" THEN <<>>
            ELSE LET perf_report == PerfReport_model_validate(data.val) IN
                 IF perf_report.exc # "none" THEN <<>> ELSE <<perf_report.val>>

RECURSIVE extract_perf_reports(_)
extract_perf_reports(entries) ==
    IF entries = <<>> THEN <<>>
    ELSE extract_perf_report(Head(entries)) \o extract_perf_reports(Tail(entries))

\* The first position i >= from of text holding a newline, or Len(text) + 1.
LineEnd(text, from) ==
    IF \E j \in from..Len(text) : text[j] = "\n"
    THEN CHOOSE j \in from..Len(text) :
            text[j] = "\n" /\ \A h \in from..(j - 1) : text[h] # "\n"
    ELSE Len(text) + 1

\* re.compile(r"extracted user intents: (.+)").search(message): the positions
\* at which the pattern matches (the marker, then at least one character
\* other than a newline).
IntentMatches(message) ==
    {i \in 1..Len(message) :
        message[i] = INTENTS_MARKER /\ LineEnd(message, i + 1) > i + 1}

\* match.group(1) of the leftmost match
IntentGroup(message) ==
    LET i == CHOOSE m \in IntentMatches(message) :
                \A o \in IntentMatches(message) : m <= o
    IN SubSeq(message, i + 1, LineEnd(message, i + 1) - 1)

\* str.split(sep), for a one-token separator: the pieces, as texts
RECURSIVE SplitFrom(_, _, _)
SplitFrom(text, sep, piece) ==
    IF text = <<>> THEN <<piece>>
    ELSE IF Head(text) = sep THEN <<piece>> \o SplitFrom(Tail(text), sep, <<>>)
    ELSE SplitFrom(Tail(text), sep, Append(piece, Head(text)))

Split(text, sep) == SplitFrom(text, sep, <<>>)

Whitespace == {" ", "\t", "\n"}

\* "".join(text): the string a text stands for
RECURSIVE Join(_)
Join(text) == IF text = <<>> THEN "" ELSE Head(text) \o Join(Tail(text))

\* str.strip() of a text, as one string
RECURSIVE StripText(_)
StripText(text) ==
    IF text = <<>> THEN ""
    ELSE IF Head(text) \in Whitespace THEN StripText(Tail(text))
    ELSE IF text[Len(text)] \in Whitespace
         THEN StripText(SubSeq(text, 1, Len(text) - 1))
    ELSE Join(text)

RECURSIVE StripAll(_)
StripAll(pieces) ==
    IF pieces = <<>> THEN <<>>
    ELSE <<StripText(Head(pieces))>> \o StripAll(Tail(pieces))

\* extract_intents, appending each token as split, without intent.strip()
RECURSIVE extract_intents_untrimmed(_)
extract_intents_untrimmed(entries) ==
    IF entries = <<>> THEN <<>>
    ELSE (IF IntentMatches(Head(entries).message) # {}
          THEN LET pieces == Split(IntentGroup(Head(entries).message), ", ")
               IN [k \in 1..Len(pieces) |-> Join(pieces[k])]
          ELSE <<>>)
         \o extract_intents_untrimmed(Tail(entries))

RECURSIVE extract_intents(_)
extract_intents(entries) ==
    IF entries = <<>> THEN <<>>
    ELSE (IF IntentMatches(Head(entries).message) # {}
          THEN StripAll(Split(IntentGroup(Head(entries).message), ", "))
          ELSE <<>>)
         \o extract_intents(Tail(entries))

LANGUAGE_BEFORE == "language code "

LANGUAGE_AFTER == " detected"

\* the i-th of a run of language codes
LanguageCode(i) == "lang" \o ToString(i)

\* the tokens matching \w+ in full
Words ==
    {"en", "fr", "es", "pt_BR", "a", "b", "x"}
        \cup {LanguageCode(i) : i \in 1..MaxIntents}

\* re.compile(r"language code (\w+) detected").search(message)
LanguageMatches(message) ==
    {i \in 1..(Len(message) - 2) :
        /\ message[i] = LANGUAGE_BEFORE
        /\ message[i + 1] \in Words
        /\ message[i + 2] = LANGUAGE_AFTER}

\* match.group(1) of the rightmost match instead of the leftmost
LanguageGroup_last(message) ==
    message[1 + CHOOSE m \in LanguageMatches(message) :
                    \A o \in LanguageMatches(message) : m >= o]

LanguageGroup(message) ==
    message[1 + CHOOSE m \in LanguageMatches(message) :
                    \A o \in LanguageMatches(message) : m <= o]

RECURSIVE extract_languages_into(_, _)
extract_languages_into(languages, entries) ==
    IF entries = <<>> THEN languages
    ELSE LET message == Head(entries).message IN
         extract_languages_into(
            IF LanguageMatches(message) # {}
            THEN DictSet(languages, LanguageGroup(message),
                         DictGet(languages, LanguageGroup(message), 0) + 1)
            ELSE languages,
            Tail(entries))

extract_languages(entries) == extract_languages_into(<<>>, entries)

\* the loop of extract_warnings / extract_errors without the
\* "not in" test: a repeated message is appended again
RECURSIVE extract_level_into_repeated(_, _, _)
extract_level_into_repeated(messages, level, entries) ==
    IF entries = <<>> THEN messages
    ELSE extract_level_into_repeated(
            IF Head(entries).level = level
            THEN Append(messages, Head(entries).message)
            ELSE messages,
            level, Tail(entries))

\* the loop of extract_warnings / extract_errors for one level
RECURSIVE extract_level_into(_, _, _)
extract_level_into(messages, level, entries) ==
    IF entries = <<>> THEN messages
    ELSE extract_level_into(
            IF Head(entries).level = level /\ Head(entries).message \notin Range(messages)
            THEN Append(messages, Head(entries).message)
            ELSE messages,
            level, Tail(entries))

extract_warnings(entries) == extract_level_into(<<>>, "WARNING", entries)

extract_errors(entries) == extract_level_into(<<>>, "ERROR", entries)

RECURSIVE count_by_level_into(_, _)
count_by_level_into(counts, entries) ==
    IF entries = <<>> THEN counts
    ELSE count_by_level_into(
            DictSet(counts, Head(entries).level,
                    DictGet(counts, Head(entries).level, 0) + 1),
            Tail(entries))

count_by_level(entries) == count_by_level_into(<<>>, entries)

\* extract_unique_users, keeping the "-" placeholder
extract_unique_users_with_placeholder(entries) ==
    {entries[i].user : i \in {j \in 1..Len(entries) : entries[j].user # ""}}

extract_unique_users(entries) ==
    {entries[i].user : i \in {j \in 1..Len(entries) :
                                 entries[j].user # "" /\ entries[j].user # "-"}}

---------------------------------------------------------------------------
(* src/models/report_data.py *)

\* A pydantic model's constructor: every field of report_data.py is declared
\* without a default, so a call that omits one raises ValidationError.
Construct(fields, kwargs) ==
    IF fields \subseteq DOMAIN kwargs THEN Return(kwargs) ELSE Raise("ValidationError")

ExecutiveSummaryFields ==
    {"date_range_start", "date_range_end", "total_interactions", "total_cost_usd",
     "avg_response_time_ms", "unique_users"}

CostBreakdownFields ==
    {"total_input_cost_usd", "total_output_cost_usd", "total_cached_cost_usd",
     "total_audio_cost_usd", "total_cost_usd"}

IntentCostEntryFields ==
    {"intent_name", "total_cost_usd", "interaction_count", "avg_cost_per_interaction"}

PerformanceMetricsFields ==
    {"avg_response_time_ms", "p50_response_time_ms", "p95_response_time_ms",
     "p99_response_time_ms", "slowest_spans"}

UsageAnalyticsFields == {"unique_users", "top_intents", "language_distribution"}

SystemHealthFields ==
    {"total_requests", "warning_count", "error_count", "success_rate_percent",
     "warning_messages", "error_messages"}

ReportDataFields ==
    {"generated_at", "executive_summary", "cost_breakdown", "cost_by_intent",
     "performance", "usage", "system_health"}

---------------------------------------------------------------------------
(* src/parsers/metrics_aggregator.py *)

\* [f(r) for r in reports] for a field of the reports
TotalMs(reports) == [i \in 1..Len(reports) |-> reports[i].total_ms]

TotalCost(reports) == [i \in 1..Len(reports) |-> reports[i].total_cost_usd]

\* calculate_executive_summary, counting the reports' user ids as users too
calculate_executive_summary_with_report_users(reports, entries, start, end) ==
    LET total_interactions == Len(reports)
        total_cost == SumSeq(TotalCost(reports))
        unique_users == extract_unique_users(entries)
                            \cup {reports[i].user_id : i \in 1..Len(reports)}
        avg_response_time ==
            IF total_interactions > 0
            THEN DecimalDiv(SumSeq(TotalMs(reports)), total_interactions)
            ELSE DecimalOf(0)
    IN Construct(ExecutiveSummaryFields,
           [date_range_start |-> start, date_range_end |-> end,
            total_interactions |-> total_interactions,
            total_cost_usd |-> total_cost,
            avg_response_time_ms |-> avg_response_time,
            unique_users |-> Cardinality(unique_users)])

calculate_executive_summary(reports, entries, start, end) ==
    LET total_interactions == Len(reports)
        total_cost == SumSeq(TotalCost(reports))
        unique_users == extract_unique_users(entries)
        avg_response_time ==
            IF total_interactions > 0
            THEN DecimalDiv(SumSeq(TotalMs(reports)), total_interactions)
            ELSE DecimalOf(0)
    IN Construct(ExecutiveSummaryFields,
           [date_range_start |-> start, date_range_end |-> end,
            total_interactions |-> total_interactions,
            total_cost_usd |-> total_cost,
            avg_response_time_ms |-> avg_response_time,
            unique_users |-> Cardinality(unique_users)])

\* calculate_cost_breakdown, leaving the audio output cost out of the audio bucket
calculate_cost_breakdown_audio_in_only(reports) ==
    LET n == Len(reports)
        total_input == SumSeq([i \in 1..n |-> reports[i].total_input_cost_usd])
        total_output == SumSeq([i \in 1..n |-> reports[i].total_output_cost_usd])
        total_cached == SumSeq([i \in 1..n |-> reports[i].total_cached_input_cost_usd])
        total_audio_in == SumSeq([i \in 1..n |-> reports[i].total_audio_input_cost_usd])
        total_cost == SumSeq(TotalCost(reports))
    IN Construct(CostBreakdownFields,
           [total_input_cost_usd |-> total_input,
            total_output_cost_usd |-> total_output,
            total_cached_cost_usd |-> total_cached,
            total_audio_cost_usd |-> total_audio_in,
            total_cost_usd |-> total_cost])

calculate_cost_breakdown(reports) ==
    LET n == Len(reports)
        total_input == SumSeq([i \in 1..n |-> reports[i].total_input_cost_usd])
        total_output == SumSeq([i \in 1..n |-> reports[i].total_output_cost_usd])
        total_cached == SumSeq([i \in 1..n |-> reports[i].total_cached_input_cost_usd])
        total_audio_in == SumSeq([i \in 1..n |-> reports[i].total_audio_input_cost_usd])
        total_audio_out == SumSeq([i \in 1..n |-> reports[i].total_audio_output_cost_usd])
        total_audio == total_audio_in + total_audio_out
        total_cost == SumSeq(TotalCost(reports))
    IN Construct(CostBreakdownFields,
           [total_input_cost_usd |-> total_input,
            total_output_cost_usd |-> total_output,
            total_cached_cost_usd |-> total_cached,
            total_audio_cost_usd |-> total_audio,
            total_cost_usd |-> total_cost])

\* the items visited by the nested loops of calculate_cost_by_intent, in order
IntentItems(reports) ==
    Concat([i \in 1..Len(reports) |-> reports[i].grouped_totals_by_intent])

\* intent_costs and intent_counts after the loops
RECURSIVE IntentAccumulate(_, _)
IntentAccumulate(acc, items) ==
    IF items = <<>> THEN acc
    ELSE LET intent_name == Head(items).k
             totals == Head(items).v
         IN IntentAccumulate(
                [costs |-> DictSet(acc.costs, intent_name,
                               DictGet(acc.costs, intent_name, 0) + totals.total_cost_usd),
                 counts |-> DictSet(acc.counts, intent_name,
                               DictGet(acc.counts, intent_name, 0) + 1)],
                Tail(items))

\* sorted(entries, key=lambda x: x.total_cost_usd)[::-1]: entries with equal
\* cost come out in reverse order
SortEntriesByCost_reversed(entries) ==
    LET keyed == [i \in 1..Len(entries) |->
                    [key |-> DecimalOf(entries[Len(entries) + 1 - i].total_cost_usd),
                     item |-> entries[Len(entries) + 1 - i]]]
        sorted == SortedReverse(keyed)
    IN [i \in 1..Len(sorted) |-> sorted[i].item]

\* sorted(entries, key=lambda x: x.total_cost_usd, reverse=True)
SortEntriesByCost(entries) ==
    LET keyed == [i \in 1..Len(entries) |->
                    [key |-> DecimalOf(entries[i].total_cost_usd), item |-> entries[i]]]
        sorted == SortedReverse(keyed)
    IN [i \in 1..Len(sorted) |-> sorted[i].item]

calculate_cost_by_intent(reports) ==
    LET acc == IntentAccumulate([costs |-> <<>>, counts |-> <<>>], IntentItems(reports))
        entries ==
            [i \in 1..Len(acc.costs) |->
                LET intent_name == acc.costs[i].k
                    total_cost == acc.costs[i].v
                    count == DictGet(acc.counts, intent_name, 0)
                    avg_cost == IF count > 0 THEN DecimalDiv(total_cost, count)
                                ELSE DecimalOf(0)
                IN Construct(IntentCostEntryFields,
                       [intent_name |-> intent_name, total_cost_usd |-> total_cost,
                        interaction_count |-> count,
                        avg_cost_per_interaction |-> avg_cost]).val]
    IN Return(SortEntriesByCost(entries))

\* calculate_percentile, taking the nearest rank instead of the floor rank
calculate_percentile_nearest(vals, pct) ==
    IF vals = <<>> THEN 0
    ELSE LET index == ((Len(vals) - 1) * pct + 50) \div 100 IN vals[index + 1]

\* the index of calculate_percentile, counted down from the last value
PercentileIndex_from_last(vals, pct) ==
    (Len(vals) - 1) - ((Len(vals) - 1) * pct) \div 100

\* index = (len(values) - 1) * percentile // 100
PercentileIndex(vals, pct) == ((Len(vals) - 1) * pct) \div 100

calculate_percentile(vals, pct) ==
    IF vals = <<>> THEN 0
    ELSE LET index == PercentileIndex(vals, pct) IN vals[index + 1]

\* the items visited by the nested loops of identify_bottleneck_spans, in order
SpanItems(reports) == Concat([i \in 1..Len(reports) |-> reports[i].spans])

RECURSIVE SpanAccumulate(_, _)
SpanAccumulate(acc, spans) ==
    IF spans = <<>> THEN acc
    ELSE LET span == Head(spans) IN
         SpanAccumulate(
            [totals |-> DictSet(acc.totals, span.name,
                            DictGet(acc.totals, span.name, 0) + span.duration_ms),
             counts |-> DictSet(acc.counts, span.name,
                            DictGet(acc.counts, span.name, 0) + 1)],
            Tail(spans))

\* sorted(span_avgs, key=lambda x: x[1], reverse=True)
SortSpansByAvg(span_avgs) ==
    LET keyed == [i \in 1..Len(span_avgs) |->
                    [key |-> span_avgs[i][2], item |-> span_avgs[i]]]
        sorted == SortedReverse(keyed)
    IN [i \in 1..Len(sorted) |-> sorted[i].item]

\* identify_bottleneck_spans, ranking by total instead of average duration
identify_bottleneck_spans_by_total(reports, n) ==
    LET acc == SpanAccumulate([totals |-> <<>>, counts |-> <<>>], SpanItems(reports))
        span_avgs ==
            [i \in 1..Len(acc.totals) |->
                <<acc.totals[i].k,
                  DecimalDiv(acc.totals[i].v, DictGet(acc.counts, acc.totals[i].k, 0))>>]
        keyed == [i \in 1..Len(span_avgs) |->
                    [key |-> DecimalOf(acc.totals[i].v), item |-> span_avgs[i]]]
        sorted == SortedReverse(keyed)
    IN Prefix([i \in 1..Len(sorted) |-> sorted[i].item], n)

identify_bottleneck_spans(reports, n) ==
    LET acc == SpanAccumulate([totals |-> <<>>, counts |-> <<>>], SpanItems(reports))
        span_avgs ==
            [i \in 1..Len(acc.totals) |->
                <<acc.totals[i].k,
                  DecimalDiv(acc.totals[i].v, DictGet(acc.counts, acc.totals[i].k, 0))>>]
    IN Prefix(SortSpansByAvg(span_avgs), n)

DEFAULT_TOP_N == 5

calculate_performance_metrics(reports) ==
    IF reports = <<>>
    THEN Construct(PerformanceMetricsFields,
             [avg_response_time_ms |-> DecimalOf(0), p50_response_time_ms |-> 0,
              p95_response_time_ms |-> 0, p99_response_time_ms |-> 0,
              slowest_spans |-> <<>>])
    ELSE LET response_times == Sorted(TotalMs(reports))
             avg_time == DecimalDiv(SumSeq(response_times), Len(response_times))
         IN Construct(PerformanceMetricsFields,
                [avg_response_time_ms |-> avg_time,
                 p50_response_time_ms |-> calculate_percentile(response_times, 50),
                 p95_response_time_ms |-> calculate_percentile(response_times, 95),
                 p99_response_time_ms |-> calculate_percentile(response_times, 99),
                 slowest_spans |-> identify_bottleneck_spans(reports, DEFAULT_TOP_N)])

\* Counter(intents): the counts, keyed in first-seen order
RECURSIVE Counter(_, _)
Counter(counts, items) ==
    IF items = <<>> THEN counts
    ELSE Counter(DictSet(counts, Head(items), DictGet(counts, Head(items), 0) + 1),
                 Tail(items))

\* Counter.most_common(n) with equal counts in last-seen order
most_common_last_seen(counter, n) ==
    LET keyed == [i \in 1..Len(counter) |->
                    [key |-> DecimalOf(counter[Len(counter) + 1 - i].v),
                     item |-> <<counter[Len(counter) + 1 - i].k,
                                counter[Len(counter) + 1 - i].v>>]]
        sorted == SortedReverse(keyed)
    IN Prefix([i \in 1..Len(sorted) |-> sorted[i].item], n)

\* Counter.most_common(n): by count descending, equal counts in first-seen order
most_common(counter, n) ==
    LET keyed == [i \in 1..Len(counter) |->
                    [key |-> DecimalOf(counter[i].v),
                     item |-> <<counter[i].k, counter[i].v>>]]
        sorted == SortedReverse(keyed)
    IN Prefix([i \in 1..Len(sorted) |-> sorted[i].item], n)

TOP_INTENTS == 10

calculate_usage_analytics(entries) ==
    LET unique_users == extract_unique_users(entries)
        intents == extract_intents(entries)
        languages == extract_languages(entries)
        intent_counter == Counter(<<>>, intents)
        top_intents == most_common(intent_counter, TOP_INTENTS)
    IN Construct(UsageAnalyticsFields,
           [unique_users |-> Cardinality(unique_users),
            top_intents |-> top_intents,
            language_distribution |-> languages])

\* Decimal.quantize(Decimal("0.01")) of num / den * 100 under the default
\* context (ROUND_HALF_EVEN), in hundredths
Quantize(num, den) ==
    LET scaled == num * 10000
        q == scaled \div den
        r == scaled % den
    IN IF 2 * r > den THEN q + 1
       ELSE IF 2 * r = den THEN q + (q % 2)
       ELSE q

WARNING_MESSAGES == 10

\* the keyword arguments of calculate_system_health's SystemHealth(...) call
system_health_kwargs(entries) ==
    LET level_counts == count_by_level(entries)
        warnings == extract_warnings(entries)
        total_requests == SumSeq([i \in 1..Len(level_counts) |-> level_counts[i].v])
        warning_count == DictGet(level_counts, "WARNING", 0)
        error_count == DictGet(level_counts, "ERROR", 0)
        success_count == total_requests - error_count
        success_rate == IF total_requests > 0
                        THEN Quantize(success_count, total_requests)
                        ELSE Quantize(1, 1)
    IN [total_requests |-> total_requests,
        warning_count |-> warning_count,
        error_count |-> error_count,
        success_rate_percent |-> success_rate,
        warning_messages |-> Prefix(warnings, WARNING_MESSAGES)]

calculate_system_health(entries) ==
    Construct(SystemHealthFields, system_health_kwargs(entries))

\* The outcome of a call whose arguments are themselves outcomes, evaluated
\* left to right: the first exception raised, or the call's own outcome.
Propagate(outcomes, call) ==
    IF \E i \in 1..Len(outcomes) : outcomes[i].exc # "none"
    THEN Raise(outcomes[CHOOSE i \in 1..Len(outcomes) :
                       /\ outcomes[i].exc # "none"
                       /\ \A j \in 1..(i - 1) : outcomes[j].exc = "none"].exc)
    ELSE call

aggregate_metrics(reports, entries, start, end, now) ==
    LET executive_summary == calculate_executive_summary(reports, entries, start, end)
        cost_breakdown == calculate_cost_breakdown(reports)
        cost_by_intent == calculate_cost_by_intent(reports)
        performance == calculate_performance_metrics(reports)
        usage == calculate_usage_analytics(entries)
        system_health == calculate_system_health(entries)
    IN Propagate(<<executive_summary, cost_breakdown, cost_by_intent, performance,
                   usage, system_health>>,
           Construct(ReportDataFields,
               [generated_at |-> now,
                executive_summary |-> executive_summary.val,
                cost_breakdown |-> cost_breakdown.val,
                cost_by_intent |-> cost_by_intent.val,
                performance |-> performance.val,
                usage |-> usage.val,
                system_health |-> system_health.val]))

---------------------------------------------------------------------------
(* src/services/log_fetcher.py *)

\* A text as str.splitlines() sees it: its lines, and whether it ends with a
\* line break.
Text(lines, newline) == [lines |-> lines, newline |-> newline]

EmptyText == Text(<<>>, FALSE)

BlankLine == RawLine(FALSE, "none", {}, <<>>, "", "", 0)

\* left + "\n" + right
JoinTwo(left, right) ==
    Text(left.lines
            \o (IF left.lines = <<>> \/ left.newline THEN <<BlankLine>> ELSE <<>>)
            \o right.lines,
         IF right.lines = <<>> THEN TRUE ELSE right.newline)

\* "\n".join(texts)
RECURSIVE NewlineJoin(_)
NewlineJoin(texts) ==
    IF texts = <<>> THEN EmptyText
    ELSE IF Len(texts) = 1 THEN texts[1]
    ELSE JoinTwo(NewlineJoin(SubSeq(texts, 1, Len(texts) - 1)), texts[Len(texts)])

\* a datetime: its date and its hour
DateTime(day, hour) == [day |-> day, hour |-> hour]

\* datetime.date()
DateOf(datetime) == datetime.day

\* LogFileEntry
LogFileEntry(name, size_bytes, modified_at, created_at) ==
    [name |-> name, size_bytes |-> size_bytes, modified_at |-> modified_at,
     created_at |-> created_at]

\* LogFilesPayload.model_validate(response.json())
LogFilesPayload_model_validate(data) ==
    IF data.valid
    THEN Return([files |-> data.files, total_files |-> data.total_files,
                 total_size_bytes |-> data.total_size_bytes])
    ELSE Raise("ValidationError")

\* an HTTP request: client.get(url, params=params)
Request(url, params) == [url |-> url, params |-> params]

Response(status_code, body) == [status_code |-> status_code, body |-> body]

\* the JSON document the listing endpoints answer with
ListingJson(api) ==
    [valid |-> api.valid,
     files |-> [i \in 1..Len(api.files) |->
                   LogFileEntry(api.files[i].name, api.files[i].size_bytes,
                                api.files[i].modified_at,
                                api.files[i].created_at)],
     total_files |-> Len(api.files),
     total_size_bytes |->
         SumSeq([i \in 1..Len(api.files) |-> api.files[i].size_bytes])]

\* what the log API answers to client.get(url)
Get(api, url) ==
    IF Len(url) = 1
    THEN Response(api.status_code, ListingJson(api))
    ELSE LET found == {i \in 1..Len(api.files) : api.files[i].name = url[2]} IN
         IF found = {} THEN Response(404, EmptyText)
         ELSE LET first == CHOOSE i \in found : \A j \in found : i <= j
              IN Response(api.files[first].status_code, api.files[first].text)

\* response.raise_for_status()
raise_for_status(response) ==
    IF response.status_code >= 400 THEN Raise("HTTPStatusError") ELSE Return(None)

\* LogFetcher.__enter__: self._client = httpx.Client(...); a client is
\* known by its rank among the clients created
__enter__(created) == [client |-> created + 1, clients |-> created + 1]

\* __exit__, dropping the client without closing it
__exit___unclosed(held) == [client |-> None, closed |-> <<>>]

\* LogFetcher.__exit__: the clients it closes, and self._client afterwards
__exit__(held) ==
    [client |-> None, closed |-> IF held # None THEN <<held>> ELSE <<>>]

\* _ensure_client, handing out self._client without the check
_ensure_client_unchecked(held) == Return(held)

_ensure_client(held) ==
    IF held = None THEN Raise("RuntimeError") ELSE Return(held)

\* A method's result: the requests it issued, in order, and its outcome.
Result(issued, outcome) == [issued |-> issued, outcome |-> outcome]

list_log_files(held, api) ==
    LET ensured == _ensure_client(held) IN
    IF ensured.exc # "none" THEN Result(<<>>, Raise(ensured.exc))
    ELSE LET request == Request(<<"/admin/logs/files">>, <<>>)
             response == Get(api, request.url)
             status == raise_for_status(response)
         IN Result(<<request>>,
                   IF status.exc # "none" THEN Raise(status.exc)
                   ELSE LogFilesPayload_model_validate(response.body))

list_recent_files(held, api, days, limit) ==
    LET ensured == _ensure_client(held) IN
    IF ensured.exc # "none" THEN Result(<<>>, Raise(ensured.exc))
    ELSE LET request == Request(<<"/admin/logs/recent">>, <<days, limit>>)
             response == Get(api, request.url)
             status == raise_for_status(response)
         IN Result(<<request>>,
                   IF status.exc # "none" THEN Raise(status.exc)
                   ELSE LogFilesPayload_model_validate(response.body))

download_log_file(held, api, filename) ==
    LET ensured == _ensure_client(held) IN
    IF ensured.exc # "none" THEN Result(<<>>, Raise(ensured.exc))
    ELSE LET request == Request(<<"/admin/logs/files/", filename>>, <<>>)
             response == Get(api, request.url)
             status == raise_for_status(response)
         IN Result(<<request>>,
                   IF status.exc # "none" THEN Raise(status.exc)
                   ELSE Return(response.body))

\* file_date within the period, taking the period's bounds as exclusive
InRange_exclusive(start, file_date, end) == start < file_date /\ file_date < end

\* start_date <= file_date <= end_date
InRange(start, file_date, end) == start <= file_date /\ file_date <= end

\* the loop of fetch_logs_for_period over the files still to visit
RECURSIVE FetchLoop(_, _, _, _, _, _, _)
FetchLoop(held, api, files, start, end, issued, all_content) ==
    IF files = <<>> THEN Result(issued, Return(NewlineJoin(all_content)))
    ELSE LET file_entry == Head(files)
             file_date == DateOf(file_entry.modified_at)
         IN IF InRange(start, file_date, end)
            THEN LET download == download_log_file(held, api, file_entry.name) IN
                 IF download.outcome.exc # "none"
                 THEN Result(issued \o download.issued, download.outcome)
                 ELSE FetchLoop(held, api, Tail(files), start, end,
                                issued \o download.issued,
                                Append(all_content, download.outcome.val))
            ELSE FetchLoop(held, api, Tail(files), start, end, issued, all_content)

fetch_logs_for_period(held, api, start, end) ==
    LET days == (end - start) + 1
        files_payload ==
            list_recent_files(held, api, IF days < 90 THEN days ELSE 90, 500)
    IN IF files_payload.outcome.exc # "none" THEN files_payload
       ELSE FetchLoop(held, api, files_payload.outcome.val.files, start, end,
                      files_payload.issued, <<>>)

\* the file the log API lists at rank i, the most recent first: every
\* fourth file cannot be downloaded
FileAt(i) ==
    [name |-> "app-" \o ToString(40 - i) \o ".log",
     size_bytes |-> 100 * i,
     modified_at |-> DateTime(40 - i, 12),
     created_at |-> DateTime(39 - i, 23),
     status_code |-> IF i % 4 = 0 THEN 404 ELSE 200,
     text |-> CASE i % 3 = 1 ->
                     Text(<<ValidLine(<<"text message received.">>, "INFO", "user1", 40 - i)>>, FALSE)
                [] i % 3 = 2 ->
                     Text(<<ValidLine(<<PERF_REPORT_PREFIX, "{r1}">>, "INFO", "user2", 40 - i)>>, TRUE)
                [] OTHER -> EmptyText]

\* a log API listing the k most recent files
Server(status_code, valid, k) ==
    [status_code |-> status_code, valid |-> valid,
     files |-> [i \in 1..k |-> FileAt(i)]]

Servers ==
    {Server(200, TRUE, k) : k \in 0..MaxFiles}
        \cup {Server(500, TRUE, 1), Server(200, FALSE, 1)}

\* the parsed command line: args.period is "None" when --period is not given
Args(period, start, end, no_email, skip_pdf) ==
    [period |-> period, start_date |-> start, end_date |-> end,
     no_email |-> no_email, skip_pdf |-> skip_pdf]

\* nothing outside the parser and the aggregator is in use
InitEnvironment ==
    /\ today = 40
    /\ report_period = "daily"
    /\ args = Args("None", None, None, FALSE, FALSE)
    /\ settings = "complete"
    /\ server = Server(200, TRUE, 0)
    /\ client = None
    /\ clients = 0
    /\ closed = <<>>
    /\ requests = <<>>

---------------------------------------------------------------------------
(* process_logs, src/services/report_generator.py *)

NoCall == [fn |-> "", exc |-> "none", val |-> <<>>]

Called(fn, outcome) == [fn |-> fn, exc |-> outcome.exc, val |-> outcome.val]

\* (start_date, end_date) of the report period
DateRanges == {<<2, 2>>, <<1, 7>>}

\* datetime.now(UTC)
Times == {100, 101}

Init ==
    /\ InitEnvironment
    /\ content \in Contents
    /\ log_entries = <<>>
    /\ perf_reports = <<>>
    /\ values = <<>>
    /\ percentile = 0
    /\ top_n = DEFAULT_TOP_N
    /\ \E range \in DateRanges : start_date = range[1] /\ end_date = range[2]
    /\ send_email = TRUE
    /\ calls = <<>>
    /\ pc = "process_logs"
    /\ ret = NoCall

\* log_entries = list(parse_log_lines(log_content))
ParseLogLines ==
    /\ pc = "process_logs"
    /\ log_entries' = parse_log_lines(content)
    /\ pc' = "parsed"
    /\ UNCHANGED <<content, perf_reports, values, percentile, top_n,
                   start_date, end_date, send_email, calls, ret, Environment>>

\* perf_reports = extract_perf_reports(iter(log_entries))
ExtractPerfReports ==
    /\ pc = "parsed"
    /\ perf_reports' = extract_perf_reports(log_entries)
    /\ pc' = "extracted"
    /\ UNCHANGED <<content, log_entries, values, percentile, top_n,
                   start_date, end_date, send_email, calls, ret, Environment>>

\* return aggregate_metrics(perf_reports, log_entries, start_date, end_date)
AggregateMetrics ==
    /\ pc = "extracted"
    /\ \E now \in Times :
          ret' = Called("aggregate_metrics",
                     aggregate_metrics(perf_reports, log_entries,
                                       start_date, end_date, now))
    /\ pc' = "done"
    /\ UNCHANGED <<content, log_entries, perf_reports, values, percentile, top_n,
                   start_date, end_date, send_email, calls, Environment>>

Next == ParseLogLines \/ ExtractPerfReports \/ AggregateMetrics

Spec == Init /\ [][Next]_vars

---------------------------------------------------------------------------
(* The functions called directly, on inputs drawn from bounded sets *)

Reports ==
    {PerfReport_model_validate(PayloadDoc(text)).val :
        text \in {"{r1}", "{r2}", "{r3}", "{r4}", "{r5}"}}

Entries == UNION {Range(parse_log_line(raw_line)) : raw_line \in RawLines}

Entry(message, level) ==
    [message |-> message, timestamp |-> 2, level |-> level, user |-> "user1"]

\* errors ERROR records followed by INFO records, n in all
LevelMix(n, errors) ==
    [i \in 1..n |-> IF i <= errors THEN Entry(<<"request failed">>, "ERROR")
                    ELSE Entry(<<"text message received.">>, "INFO")]

LevelMixes == {LevelMix(n, e) : n \in 0..MaxHealthEntries, e \in 0..MaxHealthEntries} 

\* k distinct warnings, each followed by a repeat of an earlier warning and
\* by an ERROR record with a text of its own
WarningRun(k) ==
    Concat([i \in 1..k |->
        << Entry(<<"warning ", ToString(i)>>, "WARNING"),
           Entry(<<"warning ", ToString((i + 1) \div 2)>>, "WARNING"),
           Entry(<<"error ", ToString(i)>>, "ERROR") >>])

WarningRuns == {WarningRun(k) : k \in 0..MaxWarnings}

EntryLists == SeqsUpTo(Entries, MaxEntries) \cup LevelMixes \cup WarningRuns

\* the ascending lists of at most MaxValues values in 1..MaxValue
SortedLists ==
    {vals \in SeqsUpTo(1..MaxValue, MaxValues) :
        \A i \in 1..(Len(vals) - 1) : vals[i] <= vals[i + 1]}

OneToHundred == [i \in 1..100 |-> i]

Percentiles == 0..100

InitUnit ==
    /\ InitEnvironment
    /\ content = <<>>
    /\ \E range \in DateRanges : start_date = range[1] /\ end_date = range[2]
    /\ send_email = TRUE
    /\ calls = <<>>
    /\ pc = "call"
    /\ ret = NoCall
    /\ \/ /\ perf_reports \in SeqsUpTo(Reports, MaxReports)
          /\ top_n \in 0..MaxTopN
          /\ log_entries = <<>>
          /\ values = <<>>
          /\ percentile = 50
       \/ /\ log_entries \in EntryLists
          /\ perf_reports = <<>>
          /\ top_n = DEFAULT_TOP_N
          /\ values = <<>>
          /\ percentile = 50
       \/ /\ values \in SortedLists \cup {OneToHundred, <<100>>}
          /\ percentile \in Percentiles
          /\ perf_reports = <<>>
          /\ log_entries = <<>>
          /\ top_n = DEFAULT_TOP_N

Inputs ==
    <<content, log_entries, perf_reports, values, percentile, top_n,
      start_date, end_date, send_email, calls, Environment>>

CalculatePercentile ==
    /\ pc = "call"
    /\ ret' = Called("calculate_percentile",
                  Return(calculate_percentile(values, percentile)))
    /\ pc' = "returned"
    /\ UNCHANGED Inputs

CalculatePerformanceMetrics ==
    /\ pc = "call"
    /\ ret' = Called("calculate_performance_metrics",
                  calculate_performance_metrics(perf_reports))
    /\ pc' = "returned"
    /\ UNCHANGED Inputs

CalculateCostByIntent ==
    /\ pc = "call"
    /\ ret' = Called("calculate_cost_by_intent",
                  calculate_cost_by_intent(perf_reports))
    /\ pc' = "returned"
    /\ UNCHANGED Inputs

IdentifyBottleneckSpans ==
    /\ pc = "call"
    /\ ret' = Called("identify_bottleneck_spans",
                  Return(identify_bottleneck_spans(perf_reports, top_n)))
    /\ pc' = "returned"
    /\ UNCHANGED Inputs

CalculateSystemHealth ==
    /\ pc = "call"
    /\ ret' = Called("calculate_system_health",
                  calculate_system_health(log_entries))
    /\ pc' = "returned"
    /\ UNCHANGED Inputs

NextUnit ==
    \/ CalculatePercentile
    \/ CalculatePerformanceMetrics
    \/ CalculateCostByIntent
    \/ IdentifyBottleneckSpans
    \/ CalculateSystemHealth

SpecUnit == InitUnit /\ [][NextUnit]_vars

---------------------------------------------------------------------------
(* Claims about parse_log_lines and extract_perf_reports *)

\* a raw line that is non-blank after trimming, decodes and validates
IsRecordLine(raw_line) ==
    /\ raw_line.json = "object"
    /\ \A key \in LogEntryRequired : key \in raw_line.keys
    /\ raw_line.timestamp >= 0

NonBlankLines == {i \in 1..Len(content) : content[i].json # "none"}

RecordLines == {i \in 1..Len(content) : IsRecordLine(content[i])}

\* the number of record lines up to and including line i
RecordRank(i) == Cardinality({j \in RecordLines : j <= i})

Parsed == pc \in {"parsed", "extracted", "done"}

\* C1: parse_log_lines yields exactly one record for each line that is
\* non-blank after trimming and decodes and validates, in input order (the
\* k-th record carries the fields of the k-th such line); blank and malformed
\* lines yield nothing and do not stop later lines from being parsed; the
\* number of records never exceeds the number of non-blank lines.
C1_OneRecordPerValidLine ==
    Parsed =>
        /\ Len(log_entries) = Cardinality(RecordLines)
        /\ Len(log_entries) <= Cardinality(NonBlankLines)
        /\ \A i \in RecordLines :
              LET entry == log_entries[RecordRank(i)] IN
              /\ entry.message = content[i].message
              /\ entry.level = content[i].level
              /\ entry.user = content[i].user
              /\ entry.timestamp = content[i].timestamp

\* valid, garbage, valid2 has been parsed into exactly the two records
C1_Witness ==
    /\ pc = "parsed"
    /\ Len(content) = 3
    /\ IsRecordLine(content[1])
    /\ content[2].json = "garbage"
    /\ IsRecordLine(content[3])
    /\ content[1].message # content[3].message
    /\ Len(log_entries) = 2
    /\ log_entries[1].message = content[1].message
    /\ log_entries[2].message = content[3].message

\* a record whose message is the marker followed by a report's JSON document
IsReportEntry(entry) ==
    /\ Len(entry.message) = 2
    /\ entry.message[1] = "PerfReport "
    /\ PayloadDoc(entry.message[2]).json = "object"
    /\ \A key \in PerfReportRequired : key \in PayloadDoc(entry.message[2]).keys

ReportEntries == {i \in 1..Len(log_entries) : IsReportEntry(log_entries[i])}

ReportRank(i) == Cardinality({j \in ReportEntries : j <= i})

Extracted == pc \in {"extracted", "done"}

\* C2: extract_perf_reports returns, in input order, exactly one report for
\* every record whose message starts with "PerfReport " and whose remainder
\* decodes and validates as a performance report; every other record
\* contributes nothing; records carrying the same trace are not de-duplicated.
C2_OneReportPerMarkedEntry ==
    Extracted =>
        /\ Len(perf_reports) = Cardinality(ReportEntries)
        /\ \A i \in ReportEntries :
              LET report == perf_reports[ReportRank(i)]
                  doc == PayloadDoc(log_entries[i].message[2])
              IN /\ report.trace_id = doc.trace_id
                 /\ report.user_id = doc.user_id
                 /\ report.total_ms = doc.total_ms
                 /\ report.total_cost_usd = doc.total_cost_usd
                 /\ report.grouped_totals_by_intent = doc.grouped_totals_by_intent
                 /\ report.spans = doc.spans

\* two records carrying the same trace, around a record with a broken
\* payload, have been extracted into two reports
C2_Witness ==
    /\ pc = "extracted"
    /\ Len(log_entries) = 3
    /\ ReportEntries = {1, 3}
    /\ StartsWith(log_entries[2].message, PERF_REPORT_PREFIX)
    /\ Len(perf_reports) = 2
    /\ perf_reports[1].trace_id = perf_reports[2].trace_id

---------------------------------------------------------------------------
(* Claims about aggregate_metrics and calculate_system_health *)

\* C3: for every list of validated reports and records, empty lists
\* included, aggregate_metrics and each of its six sub-computations returns a
\* result and never raises.
C3_AggregateNeverRaises ==
    pc = "done" =>
        /\ ret.exc = "none"
        /\ calculate_executive_summary(perf_reports, log_entries,
                                       start_date, end_date).exc = "none"
        /\ calculate_cost_breakdown(perf_reports).exc = "none"
        /\ calculate_cost_by_intent(perf_reports).exc = "none"
        /\ calculate_performance_metrics(perf_reports).exc = "none"
        /\ calculate_usage_analytics(log_entries).exc = "none"
        /\ calculate_system_health(log_entries).exc = "none"

NoErrorRecords == \A i \in 1..Len(log_entries) : log_entries[i].level # "ERROR"

\* C4: whenever no record has level ERROR (zero records included),
\* calculate_system_health returns a SystemHealth whose error_messages is the
\* empty list, and the ReportData of aggregate_metrics carries that list.
C4_ErrorMessagesEmpty ==
    (pc = "done" /\ NoErrorRecords) =>
        LET health == calculate_system_health(log_entries) IN
        /\ health.exc = "none"
        /\ health.val.error_messages = <<>>
        /\ ret.exc = "none"
        /\ ret.val.system_health.error_messages = <<>>

HealthCalled == pc = "returned" /\ ret.fn = "calculate_system_health"

CountLevel(level) ==
    Cardinality({i \in 1..Len(log_entries) : log_entries[i].level = level})

\* C8: calculate_system_health reports total_requests = the number of
\* records, warning_count and error_count = the number of records whose level
\* is exactly WARNING and ERROR, and with no records a success rate of 100.00
\* with all counts zero.
C8_HealthCounts ==
    HealthCalled =>
        /\ ret.exc = "none"
        /\ ret.val.total_requests = Len(log_entries)
        /\ ret.val.warning_count = CountLevel("WARNING")
        /\ ret.val.error_count = CountLevel("ERROR")
        /\ (log_entries = <<>> => ret.val.success_rate_percent = 10000)
        /\ (CountLevel("ERROR") = 0 => ret.val.success_rate_percent = 10000)

\* num / den * 100 rounded to the nearest hundredth, a half rounded up, in
\* hundredths
HalfUp(num, den) == (2 * num * 10000 + den) \div (2 * den)

\* C9: for total > 0 and 0 <= error_count <= total, the success_rate_percent
\* that calculate_system_health computes equals
\* (total - error_count) / total * 100 rounded to the nearest hundredth, a
\* value exactly halfway between two hundredths rounded up.
C9_SuccessRateHalfUp ==
    (HealthCalled /\ Len(log_entries) > 0) =>
        system_health_kwargs(log_entries).success_rate_percent
            = HalfUp(Len(log_entries) - CountLevel("ERROR"), Len(log_entries))

WarningTexts ==
    {log_entries[i].message :
        i \in {j \in 1..Len(log_entries) : log_entries[j].level = "WARNING"}}

\* the position of the first WARNING record carrying the text
FirstWarning(text) ==
    CHOOSE i \in 1..Len(log_entries) :
        /\ log_entries[i].message = text /\ log_entries[i].level = "WARNING"
        /\ \A j \in 1..(i - 1) :
              ~(log_entries[j].message = text /\ log_entries[j].level = "WARNING")

\* the place of a warning text among the distinct warning texts, first seen first
WarningRank(text) ==
    1 + Cardinality({other \in WarningTexts : FirstWarning(other) < FirstWarning(text)})

\* C10: system_health.warning_messages is exactly the first 10 entries (or
\* all, if fewer) of the distinct WARNING-level message texts in first-seen
\* order.
C10_WarningMessagesCapped ==
    HealthCalled =>
        /\ ret.exc = "none"
        /\ LET shown == ret.val.warning_messages
               n == IF Cardinality(WarningTexts) < 10 THEN Cardinality(WarningTexts) ELSE 10
           IN /\ Len(shown) = n
              /\ \A text \in WarningTexts :
                    WarningRank(text) <= n => shown[WarningRank(text)] = text

---------------------------------------------------------------------------
(* Claims about calculate_percentile and calculate_performance_metrics *)

PercentileCalled == pc = "returned" /\ ret.fn = "calculate_percentile"

PerformanceCalled == pc = "returned" /\ ret.fn = "calculate_performance_metrics"

\* k is floor((n - 1) * p / 100)
IsFloorRank(k, n, p) == k * 100 <= (n - 1) * p /\ (n - 1) * p < (k + 1) * 100

\* v is the element at zero-based index floor((n - 1) * p / 100) of the
\* ascending sort of the reports' total_ms: it is one of them, at most that
\* many are smaller and more than that many are not larger
IsPercentileOfReports(v, p) ==
    LET n == Len(perf_reports) IN
    \E k \in 0..(n - 1) :
        /\ IsFloorRank(k, n, p)
        /\ \E i \in 1..n : perf_reports[i].total_ms = v
        /\ Cardinality({i \in 1..n : perf_reports[i].total_ms < v}) <= k
        /\ Cardinality({i \in 1..n : perf_reports[i].total_ms <= v}) > k

\* C5: calculate_percentile(values, p) on an ascending list of n >= 1 values
\* returns the element at zero-based index floor((n - 1) * p / 100) and 0 for
\* the empty list; for 1..100 the 50th percentile is 50 and the 95th is 95,
\* and for the single value 100 the 50th is 100; calculate_performance_metrics
\* applies this to the ascending sort of the reports' total_ms for 50, 95, 99.
C5_FloorRankPercentile ==
    /\ PercentileCalled =>
          /\ values = <<>> => ret.val = 0
          /\ values # <<>> =>
                \E k \in 0..(Len(values) - 1) :
                    IsFloorRank(k, Len(values), percentile) /\ ret.val = values[k + 1]
          /\ (values = OneToHundred /\ percentile = 50) => ret.val = 50
          /\ (values = OneToHundred /\ percentile = 95) => ret.val = 95
          /\ (values = <<100>> /\ percentile = 50) => ret.val = 100
    /\ (PerformanceCalled /\ perf_reports # <<>>) =>
          /\ ret.exc = "none"
          /\ IsPercentileOfReports(ret.val.p50_response_time_ms, 50)
          /\ IsPercentileOfReports(ret.val.p95_response_time_ms, 95)
          /\ IsPercentileOfReports(ret.val.p99_response_time_ms, 99)

\* the 95th percentile of 1..100 has been computed
C5_Witness ==
    /\ PercentileCalled
    /\ values = OneToHundred
    /\ percentile = 95
    /\ ret.val = 95

---------------------------------------------------------------------------
(* Claims about calculate_cost_by_intent *)

CostByIntentCalled == pc = "returned" /\ ret.fn = "calculate_cost_by_intent"

IntentNamesOf(report) ==
    {report.grouped_totals_by_intent[j].k :
        j \in 1..Len(report.grouped_totals_by_intent)}

IntentNames == UNION {IntentNamesOf(perf_reports[i]) : i \in 1..Len(perf_reports)}

IntentCostIn(report, name) ==
    IF name \in IntentNamesOf(report)
    THEN report.grouped_totals_by_intent[
            CHOOSE j \in 1..Len(report.grouped_totals_by_intent) :
                report.grouped_totals_by_intent[j].k = name].v.total_cost_usd
    ELSE 0

IntentTotal(name) ==
    SumSeq([i \in 1..Len(perf_reports) |-> IntentCostIn(perf_reports[i], name)])

IntentCount(name) ==
    Cardinality({i \in 1..Len(perf_reports) : name \in IntentNamesOf(perf_reports[i])})

\* where the name is first met scanning the reports, then each report's
\* mapping, in order
IntentFirst(name) ==
    LET i == CHOOSE r \in 1..Len(perf_reports) :
                /\ name \in IntentNamesOf(perf_reports[r])
                /\ \A q \in 1..(r - 1) : name \notin IntentNamesOf(perf_reports[q])
        j == CHOOSE m \in 1..Len(perf_reports[i].grouped_totals_by_intent) :
                perf_reports[i].grouped_totals_by_intent[m].k = name
    IN i * 1000 + j

IntentBefore(a, b) ==
    \/ IntentTotal(a) > IntentTotal(b)
    \/ IntentTotal(a) = IntentTotal(b) /\ IntentFirst(a) < IntentFirst(b)

IntentRank(name) == 1 + Cardinality({other \in IntentNames : IntentBefore(other, name)})

\* C6: calculate_cost_by_intent returns exactly one entry per distinct intent
\* name, with total cost = the sum of that intent's costs over the reports
\* containing it, count = the number of those reports and average = total /
\* count; ordered by total cost descending, equal totals in first-encountered
\* order; empty input gives the empty list.
C6_CostByIntentRanking ==
    CostByIntentCalled =>
        /\ ret.exc = "none"
        /\ Len(ret.val) = Cardinality(IntentNames)
        /\ perf_reports = <<>> => ret.val = <<>>
        /\ \A name \in IntentNames :
              LET entry == ret.val[IntentRank(name)] IN
              /\ entry.intent_name = name
              /\ entry.total_cost_usd = IntentTotal(name)
              /\ entry.interaction_count = IntentCount(name)
              /\ entry.avg_cost_per_interaction.den > 0
              /\ entry.avg_cost_per_interaction.num * IntentCount(name)
                    = IntentTotal(name) * entry.avg_cost_per_interaction.den

\* costs 0.0055 and 0.0045 of one intent have been summed to 0.0100, count 2,
\* average 0.0050, ahead of two intents with equal totals
C6_Witness ==
    /\ CostByIntentCalled
    /\ Len(ret.val) = 3
    /\ ret.val[1].intent_name = "test-intent"
    /\ ret.val[1].total_cost_usd = 100
    /\ ret.val[1].interaction_count = 2
    /\ ret.val[1].avg_cost_per_interaction = [num |-> 50, den |-> 1]
    /\ ret.val[2].total_cost_usd = ret.val[3].total_cost_usd
    /\ IntentFirst(ret.val[2].intent_name) < IntentFirst(ret.val[3].intent_name)

---------------------------------------------------------------------------
(* Claims about identify_bottleneck_spans *)

BottleneckCalled == pc = "returned" /\ ret.fn = "identify_bottleneck_spans"

SpanNames ==
    UNION {{perf_reports[i].spans[j].name : j \in 1..Len(perf_reports[i].spans)} :
              i \in 1..Len(perf_reports)}

\* the occurrences of a span name: (report, position) pairs
SpanOccurrences(name) ==
    UNION {{<<i, j>> : j \in {m \in 1..Len(perf_reports[i].spans) :
                                   perf_reports[i].spans[m].name = name}} :
              i \in 1..Len(perf_reports)}

SpanTotal(name) ==
    SumSeq([i \in 1..Len(perf_reports) |->
        SumSeq([j \in 1..Len(perf_reports[i].spans) |->
            IF perf_reports[i].spans[j].name = name
            THEN perf_reports[i].spans[j].duration_ms ELSE 0])])

SpanCount(name) == Cardinality(SpanOccurrences(name))

SpanFirst(name) ==
    LET first == CHOOSE occ \in SpanOccurrences(name) :
                    \A other \in SpanOccurrences(name) :
                        occ[1] * 1000 + occ[2] <= other[1] * 1000 + other[2]
    IN first[1] * 1000 + first[2]

\* every span name with the total, the count and the first place of its
\* occurrences
SpanStats ==
    {[name |-> name, total |-> SpanTotal(name), count |-> SpanCount(name),
      first |-> SpanFirst(name)] : name \in SpanNames}

\* a's average duration is larger, or equal with a met first
SpanBefore(a, b) ==
    \/ a.total * b.count > b.total * a.count
    \/ /\ a.total * b.count = b.total * a.count
       /\ a.first < b.first

\* spans is the first n names (or all, if fewer) by descending average
IsTopSpans(spans, n) ==
    LET stats == SpanStats IN
    /\ Len(spans) = (IF Cardinality(stats) < n THEN Cardinality(stats) ELSE n)
    /\ \A span \in stats :
          LET rank == 1 + Cardinality({other \in stats : SpanBefore(other, span)})
          IN rank <= n =>
                /\ spans[rank][1] = span.name
                /\ spans[rank][2].den > 0
                /\ spans[rank][2].num * span.count = span.total * spans[rank][2].den

\* C7: identify_bottleneck_spans groups every span of every report by name,
\* averages each group's duration over all its occurrences and returns at
\* most top_n (by default 5, as in calculate_performance_metrics) (name,
\* average) pairs by descending average, names with equal averages in
\* first-encountered order; an empty report list gives an empty list.
C7_BottleneckSpansRanking ==
    /\ BottleneckCalled =>
          /\ IsTopSpans(ret.val, top_n)
          /\ Len(ret.val) <= top_n
          /\ perf_reports = <<>> => ret.val = <<>>
    /\ (PerformanceCalled /\ perf_reports # <<>>) =>
          IsTopSpans(ret.val.slowest_spans, 5)

\* durations 9000 and 11000 of one name have been averaged to 10000, and five
\* of more than five names returned, two of them with equal averages
C7_Witness ==
    /\ BottleneckCalled
    /\ top_n = 5
    /\ Cardinality(SpanNames) > 5
    /\ Len(ret.val) = 5
    /\ ret.val[1] = <<"process_message", [num |-> 10000, den |-> 1]>>
    /\ SpanCount("process_message") = 2
    /\ \E i \in 1..4 : ret.val[i][2] = ret.val[i + 1][2]

---------------------------------------------------------------------------
(* The sections of the report, computed from reports and records together *)

UserEntry(user, level) ==
    [message |-> <<"text message received.">>, timestamp |-> 2,
     level |-> level, user |-> user]

SectionEntries ==
    { UserEntry("user1", "INFO"), UserEntry("user4", "INFO"),
      UserEntry("user2", "WARNING"), UserEntry("-", "INFO"),
      UserEntry("", "INFO") }

InitSections ==
    /\ InitEnvironment
    /\ content = <<>>
    /\ perf_reports \in SeqsUpTo(Reports, MaxSectionReports)
    /\ log_entries \in SeqsUpTo(SectionEntries, MaxSectionEntries)
    /\ values = <<>>
    /\ percentile = 50
    /\ top_n = DEFAULT_TOP_N
    /\ \E range \in DateRanges : start_date = range[1] /\ end_date = range[2]
    /\ send_email = TRUE
    /\ calls = <<>>
    /\ pc = "call"
    /\ ret = NoCall

CalculateExecutiveSummary ==
    /\ pc = "call"
    /\ ret' = Called("calculate_executive_summary",
                  calculate_executive_summary(perf_reports, log_entries,
                                              start_date, end_date))
    /\ pc' = "returned"
    /\ UNCHANGED Inputs

CalculateCostBreakdown ==
    /\ pc = "call"
    /\ ret' = Called("calculate_cost_breakdown",
                  calculate_cost_breakdown(perf_reports))
    /\ pc' = "returned"
    /\ UNCHANGED Inputs

\* aggregate_metrics(perf_reports, log_entries, start_date, end_date)
AggregateMetricsCall ==
    /\ pc = "call"
    /\ \E now \in Times :
          ret' = Called("aggregate_metrics",
                     aggregate_metrics(perf_reports, log_entries,
                                       start_date, end_date, now))
    /\ pc' = "returned"
    /\ UNCHANGED Inputs

\* the same call once more, on the same arguments
AggregateMetricsAgain ==
    /\ pc = "returned"
    /\ ret.fn = "aggregate_metrics"
    /\ \E now \in Times :
          ret' = Called("aggregate_metrics",
                     aggregate_metrics(perf_reports, log_entries,
                                       start_date, end_date, now))
    /\ pc' = "returned again"
    /\ UNCHANGED Inputs

NextSections ==
    \/ CalculateExecutiveSummary
    \/ CalculateCostBreakdown
    \/ AggregateMetricsCall
    \/ AggregateMetricsAgain

SpecSections == InitSections /\ [][NextSections]_vars

---------------------------------------------------------------------------
(* Claims about calculate_executive_summary and calculate_cost_breakdown *)

SummaryCalled == pc = "returned" /\ ret.fn = "calculate_executive_summary"

\* the user fields of the records, without the sentinel and the empty string
RecordUsers ==
    {log_entries[i].user : i \in 1..Len(log_entries)} \ {"-", ""}

ReportUsers == {perf_reports[i].user_id : i \in 1..Len(perf_reports)}

\* the sum of a field over the reports
RECURSIVE SumOver(_, _)
SumOver(field, n) ==
    IF n = 0 THEN 0 ELSE SumOver(field, n - 1) + perf_reports[n][field]

\* C11: the executive summary's interaction count is the number of reports
\* (not of records); its total cost is the sum of the reports' total costs;
\* its mean response time is the sum of total_ms divided by the report count,
\* and exactly 0 with no reports; its unique-user count is taken from the
\* records' user fields only, so a user id found only in a report is not
\* counted.
C11_ExecutiveSummary ==
    SummaryCalled =>
        /\ ret.exc = "none"
        /\ ret.val.total_interactions = Len(perf_reports)
        /\ ret.val.total_cost_usd = SumOver("total_cost_usd", Len(perf_reports))
        /\ ret.val.avg_response_time_ms.den > 0
        /\ ret.val.avg_response_time_ms.num * Len(perf_reports)
              = SumOver("total_ms", Len(perf_reports))
                    * ret.val.avg_response_time_ms.den
        /\ perf_reports = <<>> => ret.val.avg_response_time_ms = [num |-> 0, den |-> 1]
        /\ ret.val.unique_users = Cardinality(RecordUsers)

\* two reports (10000 ms and 12000 ms) and one record have been summarised:
\* two interactions, mean 11000, and the one user of the record, the second
\* report's user not being counted
C11_Witness ==
    /\ SummaryCalled
    /\ Len(perf_reports) = 2
    /\ Len(log_entries) = 1
    /\ ReportUsers = {"user1", "user2"}
    /\ RecordUsers = {"user1"}
    /\ ret.val.total_interactions = 2
    /\ ret.val.total_cost_usd = 201
    /\ ret.val.avg_response_time_ms = [num |-> 11000, den |-> 1]
    /\ ret.val.unique_users = 1

BreakdownCalled == pc = "returned" /\ ret.fn = "calculate_cost_breakdown"

\* C12: calculate_cost_breakdown returns, for each token category, the sum of
\* that category's cost over all reports, the audio bucket being the sum of
\* the audio-input costs plus the sum of the audio-output costs, and
\* total_cost_usd the sum of the reports' total_cost_usd; with no reports
\* every field is 0.
C12_CostBreakdown ==
    BreakdownCalled =>
        LET n == Len(perf_reports) IN
        /\ ret.exc = "none"
        /\ ret.val.total_input_cost_usd = SumOver("total_input_cost_usd", n)
        /\ ret.val.total_output_cost_usd = SumOver("total_output_cost_usd", n)
        /\ ret.val.total_cached_cost_usd = SumOver("total_cached_input_cost_usd", n)
        /\ ret.val.total_audio_cost_usd
              = SumOver("total_audio_input_cost_usd", n)
                    + SumOver("total_audio_output_cost_usd", n)
        /\ ret.val.total_cost_usd = SumOver("total_cost_usd", n)
        /\ n = 0 => \A field \in CostBreakdownFields : ret.val[field] = 0

\* two reports with audio costs (0.0012 in, 0.0008 and 0.0005 out) have been
\* summed into an audio bucket of 0.0025
C12_Witness ==
    /\ BreakdownCalled
    /\ Len(perf_reports) = 2
    /\ SumOver("total_audio_input_cost_usd", 2) = 12
    /\ SumOver("total_audio_output_cost_usd", 2) = 13
    /\ ret.val.total_audio_cost_usd = 25
    /\ ret.val.total_input_cost_usd = 60
    /\ ret.val.total_cost_usd = 135

---------------------------------------------------------------------------
(* Claims about calling aggregate_metrics twice *)

SecondAggregation ==
    /\ pc = "returned"
    /\ ret.fn = "aggregate_metrics"
    /\ pc' = "returned again"

\* C18: aggregating the same (perf_reports, log_entries, start, end) twice
\* yields two ReportData values that agree in every field except
\* generated_at, and the arguments are unchanged between the two calls.
C18_AggregateTwiceSameReport ==
    [][SecondAggregation =>
          /\ ret.exc = "none"
          /\ ret'.exc = "none"
          /\ \A field \in ReportDataFields \ {"generated_at"} :
                ret'.val[field] = ret.val[field]
          /\ UNCHANGED Inputs]_vars

---------------------------------------------------------------------------
(* The extraction functions of log_parser.py and calculate_usage_analytics,
   called directly *)

\* messages with and without the patterns the extractions search for
ExtractMessages ==
    { <<"text message received.">>,
      <<INTENTS_MARKER, "a", ", ", "b">>,
      <<INTENTS_MARKER, "a">>,
      <<"x ", INTENTS_MARKER, " ", "a", " ", ", ", "b", ", ", ", ", " ", "a", "\t">>,
      <<INTENTS_MARKER, "\n", INTENTS_MARKER, "b">>,
      <<INTENTS_MARKER, "a", "\n", "b", ", ", "c">>,
      <<INTENTS_MARKER>>,
      <<INTENTS_MARKER, "a", ",", "b">>,
      <<INTENTS_MARKER, LANGUAGE_BEFORE, "fr", LANGUAGE_AFTER>>,
      <<LANGUAGE_BEFORE, "en", LANGUAGE_AFTER>>,
      <<LANGUAGE_BEFORE, "en", LANGUAGE_AFTER, " and ",
        LANGUAGE_BEFORE, "fr", LANGUAGE_AFTER>>,
      <<LANGUAGE_BEFORE, "x", LANGUAGE_BEFORE, "fr", LANGUAGE_AFTER>>,
      <<LANGUAGE_BEFORE, "pt-BR", LANGUAGE_AFTER>>,
      <<LANGUAGE_BEFORE, LANGUAGE_AFTER>>,
      <<"Language code ", "en", LANGUAGE_AFTER>> }

MessageEntries == {Entry(message, "INFO") : message \in ExtractMessages}

LevelEntries ==
    {Entry(message, level) :
        message \in {<<"first">>, <<"second">>},
        level \in {"WARNING", "ERROR", "INFO", "warning"}}

UserEntries == {UserEntry(user, "INFO") : user \in {"user1", "user2", "-", ""}}

\* k records, the i-th naming two intents (one of its own and one counted
\* down from the k-th) and, on a line of its own, a language code of its own
IntentRun(k) ==
    [i \in 1..k |->
        Entry(<<INTENTS_MARKER, "intent ", ToString(i), ", ",
                "intent ", ToString(k + 1 - ((i + 1) \div 2)), "\n",
                LANGUAGE_BEFORE, LanguageCode(i), LANGUAGE_AFTER>>, "INFO")]

\* records with a decodable, an undecodable and no performance report
PerfEntries ==
    {Entry(message, "INFO") :
        message \in {<<PERF_REPORT_PREFIX, "{r1}">>, <<PERF_REPORT_PREFIX, "{r1">>,
                     <<"text message received.">>}}

ExtractLists ==
    SeqsUpTo(MessageEntries, MaxMessages)
        \cup SeqsUpTo(PerfEntries, MaxEntries)
        \cup SeqsUpTo(LevelEntries, MaxLevelEntries)
        \cup SeqsUpTo(UserEntries, MaxUserEntries)
        \cup {IntentRun(k) : k \in 0..MaxIntents}

InitExtract ==
    /\ InitEnvironment
    /\ content = <<>>
    /\ perf_reports = <<>>
    /\ log_entries \in ExtractLists
    /\ values = <<>>
    /\ percentile = 50
    /\ top_n = DEFAULT_TOP_N
    /\ start_date = 2
    /\ end_date = 2
    /\ send_email = TRUE
    /\ calls = <<>>
    /\ pc = "call"
    /\ ret = NoCall

\* an extraction called on the list as such, or once another has run on it

\* extract_perf_reports, emptying the sequence it is given
ExtractPerfReportsOfList_consuming ==
    /\ pc \in {"call", "returned"}
    /\ ret' = Called("extract_perf_reports",
                  Return(extract_perf_reports(log_entries)))
    /\ pc' = IF pc = "call" THEN "returned" ELSE "returned again"
    /\ log_entries' = <<>>
    /\ UNCHANGED <<content, perf_reports, values, percentile, top_n,
                   start_date, end_date, send_email, calls, Environment>>

\* extract_perf_reports(iter(log_entries))
ExtractPerfReportsOfList ==
    /\ pc \in {"call", "returned"}
    /\ ret' = Called("extract_perf_reports",
                  Return(extract_perf_reports(log_entries)))
    /\ pc' = IF pc = "call" THEN "returned" ELSE "returned again"
    /\ UNCHANGED Inputs

ExtractIntents ==
    /\ pc \in {"call", "returned"}
    /\ ret' = Called("extract_intents", Return(extract_intents(log_entries)))
    /\ pc' = IF pc = "call" THEN "returned" ELSE "returned again"
    /\ UNCHANGED Inputs

ExtractLanguages ==
    /\ pc \in {"call", "returned"}
    /\ ret' = Called("extract_languages", Return(extract_languages(log_entries)))
    /\ pc' = IF pc = "call" THEN "returned" ELSE "returned again"
    /\ UNCHANGED Inputs

ExtractWarnings ==
    /\ pc \in {"call", "returned"}
    /\ ret' = Called("extract_warnings", Return(extract_warnings(log_entries)))
    /\ pc' = IF pc = "call" THEN "returned" ELSE "returned again"
    /\ UNCHANGED Inputs

ExtractErrors ==
    /\ pc \in {"call", "returned"}
    /\ ret' = Called("extract_errors", Return(extract_errors(log_entries)))
    /\ pc' = IF pc = "call" THEN "returned" ELSE "returned again"
    /\ UNCHANGED Inputs

ExtractUniqueUsers ==
    /\ pc \in {"call", "returned"}
    /\ ret' = Called("extract_unique_users",
                  Return(extract_unique_users(log_entries)))
    /\ pc' = IF pc = "call" THEN "returned" ELSE "returned again"
    /\ UNCHANGED Inputs

CalculateUsageAnalytics ==
    /\ pc = "call"
    /\ ret' = Called("calculate_usage_analytics",
                  calculate_usage_analytics(log_entries))
    /\ pc' = "returned"
    /\ UNCHANGED Inputs

NextExtract ==
    \/ ExtractPerfReportsOfList
    \/ ExtractIntents
    \/ ExtractLanguages
    \/ ExtractWarnings
    \/ ExtractErrors
    \/ ExtractUniqueUsers
    \/ CalculateUsageAnalytics

SpecExtract == InitExtract /\ [][NextExtract]_vars

---------------------------------------------------------------------------
(* Claims about extract_intents *)

IntentsCalled == pc = "returned" /\ ret.fn = "extract_intents"

\* where the message holds "extracted user intents: " followed by at least
\* one character of the same line
IntentListStarts(message) ==
    {i \in 1..(Len(message) - 1) :
        message[i] = "extracted user intents: " /\ message[i + 1] # "\n"}

HasIntentList(message) == IntentListStarts(message) # {}

\* the list captured: from the first such place to the end of its line
CapturedList(message) ==
    LET from == 1 + CHOOSE i \in IntentListStarts(message) :
                        \A j \in IntentListStarts(message) : i <= j
        breaks == {j \in from..Len(message) : message[j] = "\n"}
        to == IF breaks = {} THEN Len(message)
              ELSE (CHOOSE j \in breaks : \A h \in breaks : j <= h) - 1
    IN SubSeq(message, from, to)

Separators(list) == {j \in 1..Len(list) : list[j] = ", "}

\* the position of the k-th separator; 0 before the first token and
\* Len(list) + 1 after the last
Boundary(list, k) ==
    IF k = 0 THEN 0
    ELSE IF k > Cardinality(Separators(list)) THEN Len(list) + 1
    ELSE CHOOSE j \in Separators(list) :
            Cardinality({h \in Separators(list) : h <= j}) = k

\* the k-th ", "-separated token, whitespace-trimmed, as a string
TrimmedToken(list, k) ==
    LET token == SubSeq(list, Boundary(list, k - 1) + 1, Boundary(list, k) - 1)
        solid == {j \in 1..Len(token) : token[j] \notin {" ", "\t", "\n"}}
    IN IF solid = {} THEN ""
       ELSE Join(SubSeq(token,
                        CHOOSE j \in solid : \A h \in solid : j <= h,
                        CHOOSE j \in solid : \A h \in solid : j >= h))

TokenCount(message) ==
    IF HasIntentList(message)
    THEN Cardinality(Separators(CapturedList(message))) + 1
    ELSE 0

\* the number of tokens contributed by the records before the i-th
RECURSIVE TokensBefore(_)
TokensBefore(i) ==
    IF i <= 1 THEN 0
    ELSE TokensBefore(i - 1) + TokenCount(log_entries[i - 1].message)

\* C14: extract_intents emits, for each record whose message contains
\* "extracted user intents: <list>", one entry per ", "-separated token of the
\* captured list, each whitespace-trimmed, in record order and then token
\* order, duplicates retained; records without the pattern contribute
\* nothing and empty input gives the empty list.
C14_IntentsPerToken ==
    IntentsCalled =>
        /\ ret.exc = "none"
        /\ Len(ret.val) = TokensBefore(Len(log_entries) + 1)
        /\ \A i \in 1..Len(log_entries) :
              \A k \in 1..TokenCount(log_entries[i].message) :
                  ret.val[TokensBefore(i) + k]
                      = TrimmedToken(CapturedList(log_entries[i].message), k)
        /\ log_entries = <<>> => ret.val = <<>>

\* " a , b, ,  a<TAB>" of one record and "a, b" of the next have been
\* extracted as a, b, the empty token, a again, then a, b
C14_Witness ==
    /\ IntentsCalled
    /\ Len(log_entries) = 2
    /\ log_entries[1].message[1] = "x "
    /\ TokenCount(log_entries[1].message) = 4
    /\ ret.val = <<"a", "b", "", "a", "a", "b">>

---------------------------------------------------------------------------
(* Claims about extract_warnings, extract_errors and extract_unique_users *)

WarningsCalled == pc = "returned" /\ ret.fn = "extract_warnings"

ErrorsCalled == pc = "returned" /\ ret.fn = "extract_errors"

RecordsAt(level) == {i \in 1..Len(log_entries) : log_entries[i].level = level}

LevelTexts(level) == {log_entries[i].message : i \in RecordsAt(level)}

\* the position of the first record of the level carrying the text
FirstAt(level, text) ==
    CHOOSE i \in RecordsAt(level) :
        /\ log_entries[i].message = text
        /\ \A j \in RecordsAt(level) : log_entries[j].message = text => i <= j

\* messages is the distinct texts of the level's records, each once, ordered
\* by first occurrence
IsFirstSeenTexts(messages, level) ==
    /\ Len(messages) = Cardinality(LevelTexts(level))
    /\ \A text \in LevelTexts(level) :
          messages[1 + Cardinality({other \in LevelTexts(level) :
                        FirstAt(level, other) < FirstAt(level, text)})] = text

\* C15: extract_warnings (resp. extract_errors) returns the message texts of
\* exactly the records whose level is exactly "WARNING" (resp. "ERROR"), each
\* distinct message once, ordered by the position of its first occurrence.
C15_LevelMessagesFirstSeen ==
    /\ WarningsCalled => IsFirstSeenTexts(ret.val, "WARNING")
    /\ ErrorsCalled => IsFirstSeenTexts(ret.val, "ERROR")

\* of three WARNING records, the third repeating the first, two texts have
\* been returned in the order first met
C15_Witness ==
    /\ WarningsCalled
    /\ RecordsAt("WARNING") = {1, 2, 3}
    /\ log_entries[1].message = <<"second">>
    /\ log_entries[2].message = <<"first">>
    /\ log_entries[3].message = <<"second">>
    /\ ret.val = << <<"second">>, <<"first">> >>

UsersCalled == pc = "returned" /\ ret.fn = "extract_unique_users"

\* C16: extract_unique_users returns exactly the set of user identifiers
\* occurring in the records other than the sentinel "-" and the empty string;
\* a record whose user is "-" contributes nothing, and any number of records
\* with the same user contribute one element.
C16_UniqueUsers ==
    UsersCalled =>
        /\ \A user \in ret.val :
              /\ user # "-" /\ user # ""
              /\ \E i \in 1..Len(log_entries) : log_entries[i].user = user
        /\ \A i \in 1..Len(log_entries) :
              log_entries[i].user \notin {"-", ""} => log_entries[i].user \in ret.val
        /\ (\A i \in 1..Len(log_entries) : log_entries[i].user = "-") => ret.val = {}

\* two records of user1 around a record of "-" have given the one user
C16_Witness ==
    /\ UsersCalled
    /\ Len(log_entries) = 3
    /\ log_entries[1].user = "user1"
    /\ log_entries[2].user = "-"
    /\ log_entries[3].user = "user1"
    /\ ret.val = {"user1"}

---------------------------------------------------------------------------
(* Claims about extract_languages *)

LanguagesCalled == pc = "returned" /\ ret.fn = "extract_languages"

\* where the message holds "language code <word> detected"
CodeStarts(message) ==
    {i \in 1..(Len(message) - 2) :
        /\ message[i] = "language code "
        /\ message[i + 1] \in Words
        /\ message[i + 2] = " detected"}

\* the code of the first occurrence
DetectedCode(message) ==
    message[1 + CHOOSE i \in CodeStarts(message) :
                    \A j \in CodeStarts(message) : i <= j]

MatchingRecords ==
    {i \in 1..Len(log_entries) : CodeStarts(log_entries[i].message) # {}}

DetectedCodes == {DetectedCode(log_entries[i].message) : i \in MatchingRecords}

\* histogram maps every detected code, once, to the number of records whose
\* first occurrence carries it
IsLanguageHistogram(histogram) ==
    /\ Len(histogram) = Cardinality(DetectedCodes)
    /\ {histogram[j].k : j \in 1..Len(histogram)} = DetectedCodes
    /\ \A j \in 1..Len(histogram) :
          /\ histogram[j].v >= 1
          /\ histogram[j].v
                = Cardinality({i \in MatchingRecords :
                      DetectedCode(log_entries[i].message) = histogram[j].k})
    /\ SumSeq([j \in 1..Len(histogram) |-> histogram[j].v])
          = Cardinality(MatchingRecords)

\* C17: extract_languages increments, for each record whose message contains
\* "language code <word> detected", the counter of the captured code by one
\* (once per matching record, for the first occurrence in the message), so
\* every histogram value is at least 1 and the values sum to the number of
\* records with a match; records without the pattern contribute nothing.
C17_LanguageHistogram ==
    LanguagesCalled => IsLanguageHistogram(ret.val)

\* a record naming en and then fr, and a record naming en, have been counted
\* as en twice
C17_Witness ==
    /\ LanguagesCalled
    /\ Len(log_entries) = 2
    /\ Cardinality(CodeStarts(log_entries[1].message)) = 2
    /\ DetectedCode(log_entries[1].message) = "en"
    /\ log_entries[2].message = <<"language code ", "en", " detected">>
    /\ ret.val = <<[k |-> "en", v |-> 2]>>

---------------------------------------------------------------------------
(* Claims about calculate_usage_analytics *)

UsageCalled == pc = "returned" /\ ret.fn = "calculate_usage_analytics"

\* the extracted intents, in record order and then token order
ExtractedIntents == extract_intents(log_entries)

DistinctIntents == Range(ExtractedIntents)

\* every distinct intent of the list with its number of occurrences and the
\* place of its first
IntentStats(intents) ==
    {[intent |-> intent,
      frequency |-> Cardinality({p \in 1..Len(intents) : intents[p] = intent}),
      first |-> CHOOSE p \in 1..Len(intents) :
                    /\ intents[p] = intent
                    /\ \A q \in 1..(p - 1) : intents[q] # intent] :
        intent \in Range(intents)}

\* a is more frequent, or as frequent and met first
RanksBefore(a, b) ==
    \/ a.frequency > b.frequency
    \/ a.frequency = b.frequency /\ a.first < b.first

\* C13: calculate_usage_analytics returns at most 10 (intent, count) pairs,
\* the 10 most frequent extracted intents by descending frequency, equally
\* frequent intents in order of first appearance in the records; and returns
\* the complete language histogram, not truncated.
C13_TopIntentsAndLanguages ==
    UsageCalled =>
        LET stats == IntentStats(ExtractedIntents) IN
        /\ ret.exc = "none"
        /\ Len(ret.val.top_intents) <= 10
        /\ Len(ret.val.top_intents)
              = (IF Cardinality(stats) < 10 THEN Cardinality(stats) ELSE 10)
        /\ \A stat \in stats :
              LET rank == 1 + Cardinality({other \in stats : RanksBefore(other, stat)})
              IN rank <= 10 =>
                    ret.val.top_intents[rank] = <<stat.intent, stat.frequency>>
        /\ IsLanguageHistogram(ret.val.language_distribution)
        /\ Len(ret.val.language_distribution) = Cardinality(DetectedCodes)

\* of 12 intents, six of them met three times, and 12 language codes, the
\* six frequent intents have been returned in order of first appearance, then
\* four of the others, with all 12 codes
C13_Witness ==
    /\ UsageCalled
    /\ Cardinality(DistinctIntents) = 12
    /\ Cardinality(DetectedCodes) = 12
    /\ Len(ret.val.top_intents) = 10
    /\ ret.val.top_intents[1] = <<"intent 12", 3>>
    /\ ret.val.top_intents[4] = <<"intent 7", 3>>
    /\ ret.val.top_intents[5] = <<"intent 9", 3>>
    /\ ret.val.top_intents[7] = <<"intent 1", 1>>
    /\ ret.val.top_intents[10] = <<"intent 4", 1>>
    /\ Len(ret.val.language_distribution) = 12

---------------------------------------------------------------------------
(* Claims about process_logs *)

\* the record's timestamp falls on a date of the report period
InPeriod(entry) == start_date <= entry.timestamp /\ entry.timestamp <= end_date

\* C19: the log-entry list process_logs passes to aggregate_metrics holds
\* only the parsed entries whose timestamp falls on a date within
\* [start_date, end_date]; an entry dated outside the range is never among
\* the aggregated entries.
C19_OnlyEntriesInPeriodAggregated ==
    (pc = "done" /\ ret.fn = "aggregate_metrics") =>
        \A i \in 1..Len(log_entries) : InPeriod(log_entries[i])

---------------------------------------------------------------------------
(* generate_and_send, src/services/report_generator.py *)

ReportPeriods == {"daily", "weekly", "monthly", "custom"}

\* _calculate_start_date, counting seven and thirty days back
_calculate_start_date_days_back(end, period) ==
    IF period = "daily" THEN end
    ELSE IF period = "weekly" THEN end - 7
    ELSE end - 30

_calculate_start_date(end, period) ==
    IF period = "daily" THEN end
    ELSE IF period = "weekly" THEN end - 6
    ELSE end - 29

\* resolve_dates(start_date, end_date), with now_date = datetime.now(UTC).date()
\* and period = config.report_period
resolve_dates(start, end, now_date, period) ==
    LET yesterday == now_date - 1
        resolved_end == IF end = None THEN yesterday ELSE end
        resolved_start == IF start = None
                          THEN _calculate_start_date(resolved_end, period)
                          ELSE start
    IN <<resolved_start, resolved_end>>

\* process_logs(log_content, start_date, end_date)
process_logs(log_content, start, end, now) ==
    Bind([entries \in {parse_log_lines(log_content)} |->
    Bind([reports \in {extract_perf_reports(entries)} |->
    aggregate_metrics(reports, entries, start, end, now)])])

\* the path _generate_pdf builds: report_output_dir / filename
PdfPath(start, end) == <<"bt-servant-report_", start, "_", end, ".pdf">>

\* ReportGenerator.fetch_logs(start_date, end_date), created clients having
\* been created before: with LogFetcher(config) as fetcher
fetch_logs(api, start, end, created) ==
    Bind([entered \in {__enter__(created)} |->
    Bind([fetched \in {fetch_logs_for_period(entered.client, api, start, end)} |->
    Bind([exited \in {__exit__(entered.client)} |->
    [clients |-> entered.clients, client |-> exited.client,
     closed |-> exited.closed, issued |-> fetched.issued,
     outcome |-> fetched.outcome]])])])

\* generate_and_send, going on to the PDF whatever process_logs did
generate_and_send_past_failure(start, end, send, now_date, period, now, api, created, generated, sent) ==
    Bind([dates \in {resolve_dates(start, end, now_date, period)} |->
    Bind([fetch \in {fetch_logs(api, dates[1], dates[2], created)} |->
    IF fetch.outcome.exc # "none"
    THEN [calls |-> <<"resolve_dates", "fetch_logs">>,
          dates |-> dates, fetch |-> fetch,
          outcome |-> Raise(fetch.outcome.exc)]
    ELSE
    Bind([pdf_path \in {IF generated.exc = "none" THEN Return(PdfPath(dates[1], dates[2]))
         ELSE generated} |->
    IF pdf_path.exc # "none" \/ ~send
    THEN [calls |-> <<"resolve_dates", "fetch_logs", "process_logs",
                      "_generate_pdf">>,
          dates |-> dates, fetch |-> fetch, outcome |-> pdf_path]
    ELSE [calls |-> <<"resolve_dates", "fetch_logs", "process_logs",
                      "_generate_pdf", "_send_email">>,
          dates |-> dates, fetch |-> fetch,
          outcome |-> IF sent.exc # "none" THEN Raise(sent.exc) ELSE pdf_path]])])])

\* generate_and_send: the steps entered, in order, what fetch_logs did, and
\* the outcome.  generated and sent are the outcomes of PdfGenerator.generate
\* and EmailSender.send_report, should they be called.
generate_and_send(start, end, send, now_date, period, now, api, created, generated, sent) ==
    Bind([dates \in {resolve_dates(start, end, now_date, period)} |->
    Bind([fetch \in {fetch_logs(api, dates[1], dates[2], created)} |->
    IF fetch.outcome.exc # "none"
    THEN [calls |-> <<"resolve_dates", "fetch_logs">>,
          dates |-> dates, fetch |-> fetch,
          outcome |-> Raise(fetch.outcome.exc)]
    ELSE
    Bind([report_data \in {process_logs(fetch.outcome.val.lines, dates[1], dates[2], now)} |->
    IF report_data.exc # "none"
    THEN [calls |-> <<"resolve_dates", "fetch_logs", "process_logs">>,
          dates |-> dates, fetch |-> fetch,
          outcome |-> Raise(report_data.exc)]
    ELSE
    Bind([pdf_path \in {IF generated.exc = "none" THEN Return(PdfPath(dates[1], dates[2]))
         ELSE generated} |->
    IF pdf_path.exc # "none"
    THEN [calls |-> <<"resolve_dates", "fetch_logs", "process_logs",
                      "_generate_pdf">>,
          dates |-> dates, fetch |-> fetch,
          outcome |-> Raise(pdf_path.exc)]
    ELSE IF ~send
    THEN [calls |-> <<"resolve_dates", "fetch_logs", "process_logs",
                      "_generate_pdf">>,
          dates |-> dates, fetch |-> fetch, outcome |-> pdf_path]
    ELSE [calls |-> <<"resolve_dates", "fetch_logs", "process_logs",
                      "_generate_pdf", "_send_email">>,
          dates |-> dates, fetch |-> fetch,
          outcome |-> IF sent.exc # "none" THEN Raise(sent.exc) ELSE pdf_path]])])])])

\* the dates a caller may pass, and today's date
GivenDates == {None, 32, 38}

Todays == {40, 41}

InitGenerate ==
    /\ content = <<>>
    /\ log_entries = <<>>
    /\ perf_reports = <<>>
    /\ values = <<>>
    /\ percentile = 50
    /\ top_n = DEFAULT_TOP_N
    /\ start_date \in GivenDates
    /\ end_date \in GivenDates
    /\ send_email \in BOOLEAN
    /\ calls = <<>>
    /\ today \in Todays
    /\ report_period \in ReportPeriods
    /\ args = Args("None", None, None, FALSE, FALSE)
    /\ settings = "complete"
    /\ server \in Servers
    /\ client = None
    /\ clients = 0
    /\ closed = <<>>
    /\ requests = <<>>
    /\ pc = "call"
    /\ ret = NoCall

ResolveDates ==
    /\ pc = "call"
    /\ ret' = Called("resolve_dates",
                  Return(resolve_dates(start_date, end_date, today, report_period)))
    /\ pc' = "returned"
    /\ UNCHANGED Inputs

FetchLogs ==
    /\ pc = "call"
    /\ start_date # None
    /\ end_date # None
    /\ \E fetch \in {fetch_logs(server, start_date, end_date, clients)} :
          /\ clients' = fetch.clients
          /\ closed' = closed \o fetch.closed
          /\ requests' = requests \o fetch.issued
          /\ ret' = Called("fetch_logs", fetch.outcome)
    /\ pc' = "returned"
    /\ UNCHANGED <<content, log_entries, perf_reports, values, percentile, top_n,
                   start_date, end_date, send_email, calls, today, report_period,
                   args, settings, server, client>>

GenerateAndSend ==
    /\ pc = "call"
    /\ \E now \in Times,
          generated \in {Return(<<>>), Raise("OSError")},
          sent \in {Return(<<>>), Raise("SMTPException")} :
          \E run \in {generate_and_send(start_date, end_date, send_email, today,
                                       report_period, now, server, clients,
                                       generated, sent)} :
             /\ start_date' = run.dates[1]
             /\ end_date' = run.dates[2]
             /\ content' = IF run.fetch.outcome.exc = "none"
                           THEN run.fetch.outcome.val.lines ELSE <<>>
             /\ clients' = run.fetch.clients
             /\ closed' = closed \o run.fetch.closed
             /\ requests' = requests \o run.fetch.issued
             /\ calls' = run.calls
             /\ ret' = Called("generate_and_send", run.outcome)
    /\ pc' = "returned"
    /\ UNCHANGED <<log_entries, perf_reports, values, percentile, top_n,
                   send_email, today, report_period, args, settings, server,
                   client>>

NextGenerate == ResolveDates \/ FetchLogs \/ GenerateAndSend

SpecGenerate == InitGenerate /\ [][NextGenerate]_vars

---------------------------------------------------------------------------
(* Claims about generate_and_send *)

GenerateReturned == pc = "returned" /\ ret.fn = "generate_and_send"

\* C20: generate_and_send performs date resolution, log fetching, log
\* processing and PDF generation exactly once each and in that order, then
\* sends the email exactly once if and only if send_email is true, and
\* returns the path returned by PDF generation; with send_email false no
\* email is sent in any execution.
C20_PipelineOrderAndEmail ==
    /\ (GenerateReturned /\ send_email) =>
          /\ calls = <<"resolve_dates", "fetch_logs", "process_logs",
                       "_generate_pdf", "_send_email">>
          /\ ret.exc = "none"
          /\ ret.val = PdfPath(start_date, end_date)
    /\ (GenerateReturned /\ ~send_email) =>
          /\ calls = <<"resolve_dates", "fetch_logs", "process_logs",
                       "_generate_pdf">>
          /\ ret.exc = "none"
          /\ ret.val = PdfPath(start_date, end_date)

---------------------------------------------------------------------------
(* Claims about resolve_dates *)

ResolveReturned == pc = "returned" /\ ret.fn = "resolve_dates"

\* C21: date resolution returns explicitly supplied start and end dates
\* unchanged; a missing end date defaults to yesterday (today minus one
\* day); a missing start date is computed from the resolved end date: the
\* end date itself for the daily period, 6 days before it for weekly and 29
\* days before it for monthly.
C21_DateResolution ==
    ResolveReturned =>
        LET resolved_start == ret.val[1]
            resolved_end == ret.val[2]
        IN /\ start_date # None => resolved_start = start_date
           /\ end_date # None => resolved_end = end_date
           /\ end_date = None => resolved_end = today - 1
           /\ (start_date = None /\ report_period = "daily") =>
                  resolved_start = resolved_end
           /\ (start_date = None /\ report_period = "weekly") =>
                  resolved_start = resolved_end - 6
           /\ (start_date = None /\ report_period = "monthly") =>
                  resolved_start = resolved_end - 29

C21_Witness ==
    /\ ResolveReturned
    /\ start_date = None
    /\ end_date = None
    /\ report_period = "weekly"
    /\ today = 41
    /\ ret.val = <<34, 40>>

---------------------------------------------------------------------------
(* A LogFetcher used directly, src/services/log_fetcher.py *)

\* (start_date, end_date) asked of fetch_logs_for_period
FetchRanges == {<<38, 39>>, <<36, 39>>, <<38, 38>>, <<50, 51>>}

\* (days, limit) asked of list_recent_files
RecentQueries == {<<7, 100>>, <<14, 50>>}

FileNames == {FileAt(i).name : i \in 1..MaxFiles} \cup {"test.log"}

InitFetcher ==
    /\ content = <<>>
    /\ log_entries = <<>>
    /\ perf_reports = <<>>
    /\ values = <<>>
    /\ percentile = 50
    /\ top_n = DEFAULT_TOP_N
    /\ \E range \in FetchRanges : start_date = range[1] /\ end_date = range[2]
    /\ send_email = TRUE
    /\ calls = <<>>
    /\ today = 40
    /\ report_period = "daily"
    /\ args = Args("None", None, None, FALSE, FALSE)
    /\ settings = "complete"
    /\ server \in Servers
    /\ client = None
    /\ clients = 0
    /\ closed = <<>>
    /\ requests = <<>>
    /\ pc = "fetcher"
    /\ ret = NoCall

\* what a call on the fetcher leaves alone, but for the fetcher and the API
Session ==
    <<content, log_entries, perf_reports, values, percentile, top_n,
      start_date, end_date, send_email, calls, today, report_period, args,
      settings, server, pc>>

Enter ==
    /\ pc = "fetcher"
    /\ clients < MaxClients
    /\ LET entered == __enter__(clients)
       IN /\ client' = entered.client
          /\ clients' = entered.clients
    /\ ret' = Called("__enter__", Return("self"))
    /\ UNCHANGED <<Session, closed, requests>>

Exit ==
    /\ pc = "fetcher"
    /\ LET exited == __exit__(client)
       IN /\ client' = exited.client
          /\ closed' = closed \o exited.closed
    /\ ret' = Called("__exit__", Return(None))
    /\ UNCHANGED <<Session, clients, requests>>

ListLogFiles ==
    /\ pc = "fetcher"
    /\ client # None => Len(requests) < MaxRequests
    /\ LET result == list_log_files(client, server)
       IN /\ requests' = requests \o result.issued
          /\ ret' = Called("list_log_files", result.outcome)
    /\ UNCHANGED <<Session, client, clients, closed>>

ListRecentFiles ==
    /\ pc = "fetcher"
    /\ client # None => Len(requests) < MaxRequests
    /\ \E query \in RecentQueries :
          LET result == list_recent_files(client, server, query[1], query[2])
          IN /\ requests' = requests \o result.issued
             /\ ret' = Called("list_recent_files", result.outcome)
    /\ UNCHANGED <<Session, client, clients, closed>>

DownloadLogFile ==
    /\ pc = "fetcher"
    /\ client # None => Len(requests) < MaxRequests
    /\ \E filename \in FileNames :
          LET result == download_log_file(client, server, filename)
          IN /\ requests' = requests \o result.issued
             /\ ret' = Called("download_log_file", result.outcome)
    /\ UNCHANGED <<Session, client, clients, closed>>

FetchLogsForPeriod ==
    /\ pc = "fetcher"
    /\ client # None => Len(requests) < MaxRequests
    /\ LET result == fetch_logs_for_period(client, server, start_date, end_date)
       IN /\ requests' = requests \o result.issued
          /\ ret' = Called("fetch_logs_for_period", result.outcome)
    /\ UNCHANGED <<Session, client, clients, closed>>

NextFetcher ==
    \/ Enter
    \/ Exit
    \/ ListLogFiles
    \/ ListRecentFiles
    \/ DownloadLogFile
    \/ FetchLogsForPeriod

SpecFetcher == InitFetcher /\ [][NextFetcher]_vars

---------------------------------------------------------------------------
(* Claims about LogFetcher *)

\* the methods that go through _ensure_client before a request
ClientMethods == {"list_log_files", "list_recent_files", "download_log_file"}

\* C22: whenever the LogFetcher has no open client (before __enter__ and
\* after __exit__), list_log_files, list_recent_files and download_log_file
\* raise RuntimeError and issue no HTTP request; __enter__ creates exactly one
\* client, and __exit__ closes the client held exactly once and clears it.
C22_ClientLifecycle ==
    [][/\ (client = None /\ ret'.fn \in ClientMethods) =>
              /\ ret'.exc = "RuntimeError"
              /\ requests' = requests
       /\ ret'.fn = "__enter__" =>
              /\ clients' = clients + 1
              /\ client' = clients'
              /\ closed' = closed
       /\ ret'.fn = "__exit__" =>
              /\ client' = None
              /\ clients' = clients
              /\ closed' = IF client = None THEN closed ELSE Append(closed, client)
      ]_vars

C22_Witness ==
    /\ ret.fn = "download_log_file"
    /\ ret.exc = "RuntimeError"
    /\ client = None
    /\ closed = <<1>>
    /\ Len(requests) = 1

\* the listed files whose modified date lies within [start_date, end_date],
\* in listing order
FilesInPeriod ==
    SelectSeq(server.files,
              LAMBDA file : /\ start_date <= file.modified_at.day
                            /\ file.modified_at.day <= end_date)

\* the download requests for the first n files of the period
DownloadsOf(n) ==
    [i \in 1..n |-> Request(<<"/admin/logs/files/", FilesInPeriod[i].name>>, <<>>)]

\* C23: fetch_logs_for_period asks for the recent-files listing, then
\* downloads exactly the listed files whose modified date d satisfies
\* start_date <= d <= end_date, each once and in listing order, never a file
\* outside that range, and returns the downloaded texts joined by a newline
\* (the empty string when no file is in range).
C23_FetchFilesOfPeriod ==
    [][(client # None /\ ret'.fn = "fetch_logs_for_period") =>
          LET issued == SubSeq(requests', Len(requests) + 1, Len(requests'))
              downloads == Tail(issued)
          IN /\ issued # <<>>
             /\ issued[1].url = <<"/admin/logs/recent">>
             /\ Len(downloads) <= Len(FilesInPeriod)
             /\ downloads = DownloadsOf(Len(downloads))
             /\ ret'.exc = "none" =>
                   /\ downloads = DownloadsOf(Len(FilesInPeriod))
                   /\ ret'.val = NewlineJoin([i \in 1..Len(FilesInPeriod) |->
                                                 FilesInPeriod[i].text])
                   /\ FilesInPeriod = <<>> => ret'.val = EmptyText
      ]_vars

C23_Witness ==
    /\ ret.fn = "fetch_logs_for_period"
    /\ ret.exc = "none"
    /\ Len(server.files) = 3
    /\ start_date = 38
    /\ end_date = 39
    /\ Len(requests) = 3
    /\ requests[2].url = <<"/admin/logs/files/", "app-39.log">>
    /\ requests[3].url = <<"/admin/logs/files/", "app-38.log">>
    /\ Len(ret.val.lines) = 2
    /\ ret.val.newline

---------------------------------------------------------------------------
(* Claims about ReportGenerator.fetch_logs *)

FetchLogsReturned == pc = "returned" /\ ret.fn = "fetch_logs"

\* the number of times the client was closed
TimesClosed(held) == Cardinality({i \in 1..Len(closed) : closed[i] = held})

\* C30: ReportGenerator.fetch_logs never leaves an HTTP client open: whether
\* fetch_logs_for_period returns or raises (the listing fails, or a download
\* answers with an error status, and then no partial content is returned),
\* the client created on entry has been closed exactly once when fetch_logs
\* returns or propagates the error.
C30_FetchLogsClosesClient ==
    (FetchLogsReturned \/ GenerateReturned) =>
        /\ clients = 1
        /\ \A held \in 1..clients : TimesClosed(held) = 1
        /\ (FetchLogsReturned /\ ret.exc # "none") => ret.val = <<>>

C30_Witness ==
    /\ FetchLogsReturned
    /\ ret.exc = "HTTPStatusError"
    /\ Len(requests) = 4
    /\ requests[4].url = <<"/admin/logs/files/", "app-36.log">>
    /\ clients = 1
    /\ closed = <<1>>

---------------------------------------------------------------------------
(* Claims about failures in generate_and_send *)

\* the steps of generate_and_send, in the order of the code
PipelineSteps ==
    <<"resolve_dates", "fetch_logs", "process_logs", "_generate_pdf", "_send_email">>

Entered(step) == \E i \in 1..Len(calls) : calls[i] = step

\* the outcome of fetching the logs of the resolved period
FetchOutcome == fetch_logs(server, start_date, end_date, 0).outcome

\* the outcome of processing the fetched logs
ProcessOutcome ==
    process_logs(content, start_date, end_date, CHOOSE now \in Times : TRUE)

\* C29: in every execution of generate_and_send, if log fetching, log
\* processing or PDF generation fails, the failure propagates and no later
\* step runs: an email is sent only after PDF generation has completed in
\* the same run, and a PDF is generated only after log fetching and
\* processing have succeeded.
C29_FailureStopsPipeline ==
    GenerateReturned =>
        /\ calls = SubSeq(PipelineSteps, 1, Len(calls))
        /\ FetchOutcome.exc # "none" =>
              /\ ret.exc = FetchOutcome.exc
              /\ calls = SubSeq(PipelineSteps, 1, 2)
        /\ (FetchOutcome.exc = "none" /\ ProcessOutcome.exc # "none") =>
              /\ ret.exc = ProcessOutcome.exc
              /\ calls = SubSeq(PipelineSteps, 1, 3)
        /\ Entered("_generate_pdf") =>
              /\ FetchOutcome.exc = "none"
              /\ ProcessOutcome.exc = "none"
        /\ (Len(calls) = 4 /\ ret.exc # "none") => ret.exc = "OSError"
        /\ Entered("_send_email") => Entered("_generate_pdf")

C29_Witness ==
    /\ GenerateReturned
    /\ send_email
    /\ FetchOutcome.exc = "none"
    /\ Len(content) = 2
    /\ ret.exc = "ValidationError"
    /\ calls = <<"resolve_dates", "fetch_logs", "process_logs">>

---------------------------------------------------------------------------
(* main, src/cli/main.py *)

\* the class an exception class derives from
Base(exc) ==
    CASE exc \in {"ValidationError", "JSONDecodeError"} -> "ValueError"
      [] exc = "SMTPException" -> "OSError"
      [] OTHER -> "Exception"

\* isinstance(err, classes)
IsInstance(exc, classes) == exc \in classes \/ Base(exc) \in classes

\* sys.exit(code), as parser.error does
SystemExit(code) == [exc |-> "SystemExit", val |-> code]

\* build_config_overrides(args), as far as the report period goes
build_config_overrides(cli) ==
    IF cli.period # "None"
    THEN <<[k |-> "report_period", v |-> cli.period]>>
    ELSE <<>>

\* AppConfig(**overrides): the settings come from the environment, the
\* overrides take precedence
AppConfig(overrides, env_settings, env_period) ==
    IF env_settings = "complete"
    THEN Return([report_period |-> DictGet(overrides, "report_period", env_period)])
    ELSE Raise("ValidationError")

\* the except clause of main, catching nothing
Caught_nothing(exc) == Raise(exc)

\* except (ValueError, OSError, RuntimeError): return 1
Caught(exc) ==
    IF IsInstance(exc, {"ValueError", "OSError", "RuntimeError"})
    THEN Return(1)
    ELSE Raise(exc)

\* a call main made, and the exception it ended with
Call(fn, exc) == [fn |-> fn, exc |-> exc]

\* fetch_logs was not called
NoFetch(created) ==
    [clients |-> created, client |-> None, closed |-> <<>>, issued |-> <<>>,
     outcome |-> Return(EmptyText)]

\* main(argv), args = parser.parse_args(argv): the calls it makes, the
\* send_email argument it passes, what fetch_logs did, and its outcome
main(cli, env_settings, env_period, now_date, now, api, created, generated, sent) ==
    IF cli.period = "custom" /\ (cli.start_date = None \/ cli.end_date = None)
    THEN [calls |-> <<>>, passed |-> <<>>, fetch |-> NoFetch(created),
          outcome |-> SystemExit(2)]
    ELSE
    Bind([config \in {AppConfig(build_config_overrides(cli), env_settings, env_period)} |->
    Bind([built \in {<<Call("AppConfig", "none"), Call("ReportGenerator", "none")>>} |->
    IF config.exc # "none"
    THEN [calls |-> <<Call("AppConfig", config.exc)>>, passed |-> <<>>,
          fetch |-> NoFetch(created), outcome |-> Caught(config.exc)]
    ELSE IF cli.skip_pdf
    THEN Bind([dates \in {resolve_dates(cli.start_date, cli.end_date, now_date,
                            config.val.report_period)} |->
         Bind([fetch \in {fetch_logs(api, dates[1], dates[2], created)} |->
         IF fetch.outcome.exc # "none"
         THEN [calls |-> built \o <<Call("resolve_dates", "none"),
                                    Call("fetch_logs", fetch.outcome.exc)>>,
               passed |-> <<>>, fetch |-> fetch,
               outcome |-> Caught(fetch.outcome.exc)]
         ELSE
         Bind([report_data \in {process_logs(fetch.outcome.val.lines, dates[1], dates[2], now)} |->
         [calls |-> built \o <<Call("resolve_dates", "none"),
                               Call("fetch_logs", "none"),
                               Call("process_logs", report_data.exc)>>,
          passed |-> <<>>, fetch |-> fetch,
          outcome |-> IF report_data.exc # "none"
                      THEN Caught(report_data.exc) ELSE Return(0)]])])])
    ELSE Bind([run \in {generate_and_send(cli.start_date, cli.end_date, ~cli.no_email,
                                now_date, config.val.report_period, now, api,
                                created, generated, sent)} |->
         [calls |-> Append(built, Call("generate_and_send", run.outcome.exc)),
          passed |-> <<~cli.no_email>>, fetch |-> run.fetch,
          outcome |-> IF run.outcome.exc # "none"
                      THEN Caught(run.outcome.exc) ELSE Return(0)]])])])

\* the command lines drawn
CommandLines ==
    {Args(period, start, end, no_email, skip_pdf) :
        period \in {"None", "weekly", "custom"}, start \in {None, 38},
        end \in {None, 38}, no_email \in BOOLEAN, skip_pdf \in BOOLEAN}

InitMain ==
    /\ content = <<>>
    /\ log_entries = <<>>
    /\ perf_reports = <<>>
    /\ values = <<>>
    /\ percentile = 50
    /\ top_n = DEFAULT_TOP_N
    /\ start_date = 38
    /\ end_date = 38
    /\ send_email = TRUE
    /\ calls = <<>>
    /\ today = 40
    /\ report_period = "daily"
    /\ args \in CommandLines
    /\ settings \in {"complete", "incomplete"}
    /\ server \in Servers
    /\ client = None
    /\ clients = 0
    /\ closed = <<>>
    /\ requests = <<>>
    /\ pc = "call"
    /\ ret = NoCall

Main ==
    /\ pc = "call"
    /\ \E now \in Times,
          generated \in {Return(<<>>), Raise("OSError")},
          sent \in {Return(<<>>), Raise("SMTPException")} :
          \E run \in {main(args, settings, report_period, today, now, server,
                          clients, generated, sent)} :
             /\ calls' = run.calls
             /\ send_email' = IF run.passed # <<>> THEN run.passed[1] ELSE send_email
             /\ clients' = run.fetch.clients
             /\ closed' = closed \o run.fetch.closed
             /\ requests' = requests \o run.fetch.issued
             /\ ret' = Called("main", run.outcome)
    /\ pc' = "returned"
    /\ UNCHANGED <<content, log_entries, perf_reports, values, percentile, top_n,
                   start_date, end_date, today, report_period, args, settings,
                   server, client>>

NextMain == Main

SpecMain == InitMain /\ [][NextMain]_vars

---------------------------------------------------------------------------
(* Claims about main *)

MainReturned == pc = "returned" /\ ret.fn = "main"

\* --period custom without both --start-date and --end-date
CustomWithoutDates ==
    args.period = "custom" /\ (args.start_date = None \/ args.end_date = None)

\* C24: main exits with code 2 before building any configuration or running
\* any pipeline step when --period custom is given without both --start-date
\* and --end-date; otherwise it returns 0 when the pipeline completes and
\* returns 1, without propagating, when configuration construction or any
\* pipeline step raises ValueError, OSError or RuntimeError; with --no-email
\* the pipeline is invoked with send_email false.
C24_MainExitCodes ==
    MainReturned =>
        /\ CustomWithoutDates =>
              /\ ret.exc = "SystemExit"
              /\ ret.val = 2
              /\ calls = <<>>
              /\ requests = <<>>
        /\ ~CustomWithoutDates =>
              /\ calls # <<>>
              /\ calls[1].fn = "AppConfig"
              /\ (\A i \in 1..Len(calls) : calls[i].exc = "none") =>
                    (ret.exc = "none" /\ ret.val = 0)
              /\ (\E i \in 1..Len(calls) :
                     IsInstance(calls[i].exc, {"ValueError", "OSError", "RuntimeError"})) =>
                    (ret.exc = "none" /\ ret.val = 1)
              /\ (args.no_email /\ \E i \in 1..Len(calls) :
                                      calls[i].fn = "generate_and_send") =>
                    ~send_email

C24_Witness ==
    /\ MainReturned
    /\ args.no_email
    /\ ~args.skip_pdf
    /\ args.period = "custom"
    /\ Len(calls) = 3
    /\ calls[3] = Call("generate_and_send", "ValidationError")
    /\ Len(requests) >= 2
    /\ ~send_email
    /\ ret.exc = "none"
    /\ ret.val = 1

---------------------------------------------------------------------------
(* Claims about the extractions taken together *)

Extractions ==
    {"extract_perf_reports", "extract_intents", "extract_languages",
     "extract_warnings", "extract_errors", "extract_unique_users"}

\* no record of the list holds what the extraction looks for
NoMatch(fn) ==
    CASE fn = "extract_perf_reports" ->
           \A i \in 1..Len(log_entries) :
               \/ log_entries[i].message = <<>>
               \/ log_entries[i].message[1] # "PerfReport "
      [] fn = "extract_intents" ->
           \A i \in 1..Len(log_entries) : ~HasIntentList(log_entries[i].message)
      [] fn = "extract_languages" -> MatchingRecords = {}
      [] fn = "extract_warnings" -> RecordsAt("WARNING") = {}
      [] fn = "extract_errors" -> RecordsAt("ERROR") = {}
      [] fn = "extract_unique_users" ->
           \A i \in 1..Len(log_entries) : log_entries[i].user \in {"-", ""}

\* the extraction's empty container: a set of users, a list or a dict otherwise
IsEmptyContainer(fn, val) ==
    IF fn = "extract_unique_users" THEN val = {} ELSE val = <<>>

\* val accounts for every record of the list
SeesEveryRecord(fn, val) ==
    CASE fn = "extract_perf_reports" ->
           Len(val) = Cardinality({i \in 1..Len(log_entries) :
                          log_entries[i].message = <<"PerfReport ", "{r1}">>})
      [] fn = "extract_intents" -> Len(val) = TokensBefore(Len(log_entries) + 1)
      [] fn = "extract_languages" -> IsLanguageHistogram(val)
      [] fn = "extract_warnings" -> IsFirstSeenTexts(val, "WARNING")
      [] fn = "extract_errors" -> IsFirstSeenTexts(val, "ERROR")
      [] fn = "extract_unique_users" ->
           val = {log_entries[i].user : i \in 1..Len(log_entries)} \ {"-", ""}

\* C25: each extraction (performance reports, intents, languages,
\* warnings/errors, unique users) leaves the record sequence it is given
\* unchanged, so that another extraction run on the same sequence afterwards
\* sees every record, and each returns an empty container and does not fail
\* when there are zero records or zero matches.
C25_ExtractionsLeaveRecords ==
    [][/\ log_entries' = log_entries
       /\ ret'.fn \in Extractions =>
             /\ ret'.exc = "none"
             /\ NoMatch(ret'.fn) => IsEmptyContainer(ret'.fn, ret'.val)
             /\ SeesEveryRecord(ret'.fn, ret'.val)
      ]_vars

C25_Witness ==
    /\ pc = "returned again"
    /\ ret.fn = "extract_perf_reports"
    /\ Len(log_entries) = 2
    /\ Len(ret.val) = 2
    /\ ret.val[1].trace_id = "trace1"

---------------------------------------------------------------------------
(* Claims about the range of the percentiles *)

\* the total_ms of the reports
ResponseTimes == {perf_reports[i].total_ms : i \in 1..Len(perf_reports)}

\* C28: for every non-empty list, the index computed by calculate_percentile
\* for p in 0..100 lies within 0..n-1, so each of p50, p95 and p99 is the
\* total_ms of some input report and
\* min(total_ms) <= p50 <= p95 <= p99 <= max(total_ms).
C28_PercentilesWithinRange ==
    /\ (PercentileCalled /\ values # <<>>) =>
          /\ PercentileIndex(values, percentile) \in 0..(Len(values) - 1)
          /\ ret.val = values[PercentileIndex(values, percentile) + 1]
          /\ values[1] <= ret.val
          /\ ret.val <= values[Len(values)]
    /\ (PerformanceCalled /\ perf_reports # <<>>) =>
          LET p50 == ret.val.p50_response_time_ms
              p95 == ret.val.p95_response_time_ms
              p99 == ret.val.p99_response_time_ms
          IN /\ ret.exc = "none"
             /\ {p50, p95, p99} \subseteq ResponseTimes
             /\ (CHOOSE least \in ResponseTimes :
                     \A total_ms \in ResponseTimes : least <= total_ms) <= p50
             /\ p50 <= p95
             /\ p95 <= p99
             /\ p99 <= (CHOOSE most \in ResponseTimes :
                           \A total_ms \in ResponseTimes : total_ms <= most)

C28_Witness ==
    /\ PerformanceCalled
    /\ Len(perf_reports) = 4
    /\ ResponseTimes = {500, 4000, 10000, 12000}
    /\ ret.val.p50_response_time_ms = 4000
    /\ ret.val.p95_response_time_ms = 10000
    /\ ret.val.p99_response_time_ms = 10000

---------------------------------------------------------------------------
(* Claims about the ReportData of aggregate_metrics *)

AggregateReturned == pc = "returned" /\ ret.fn = "aggregate_metrics"

\* C27: aggregate_metrics(perf_reports, log_entries, start_date, end_date)
\* produces a ReportData whose sections agree with each other: the executive
\* summary's total cost is the cost breakdown's, its average response time
\* is the performance section's, its unique-user count is the usage
\* section's, and its date range is the start_date and end_date arguments.
C27_SectionsAgree ==
    AggregateReturned =>
        /\ ret.exc = "none"
        /\ ret.val.executive_summary.total_cost_usd
               = ret.val.cost_breakdown.total_cost_usd
        /\ ret.val.executive_summary.avg_response_time_ms
               = ret.val.performance.avg_response_time_ms
        /\ ret.val.executive_summary.unique_users = ret.val.usage.unique_users
        /\ ret.val.executive_summary.date_range_start = start_date
        /\ ret.val.executive_summary.date_range_end = end_date

\* the orders a list can be given in
Orders(list) ==
    {[i \in 1..Len(list) |-> list[order[i]]] : order \in Permutations(1..Len(list))}

\* the accumulated values of a ReportData, ranked lists and dicts read
\* without their order
Accumulated(report) ==
    [total_interactions |-> report.executive_summary.total_interactions,
     total_cost_usd |-> report.executive_summary.total_cost_usd,
     cost_breakdown |-> report.cost_breakdown,
     avg_response_time_ms |-> report.performance.avg_response_time_ms,
     p50_response_time_ms |-> report.performance.p50_response_time_ms,
     p95_response_time_ms |-> report.performance.p95_response_time_ms,
     p99_response_time_ms |-> report.performance.p99_response_time_ms,
     cost_by_intent |->
         {<<entry.intent_name, entry.total_cost_usd, entry.interaction_count>> :
             entry \in Range(report.cost_by_intent)},
     slowest_spans |-> Range(report.performance.slowest_spans),
     unique_users |-> report.usage.unique_users,
     language_distribution |-> Range(report.usage.language_distribution),
     total_requests |-> report.system_health.total_requests,
     warning_count |-> report.system_health.warning_count,
     error_count |-> report.system_health.error_count]

\* C26: aggregate_metrics produces a ReportData, and on the same reports and
\* the same records given in any other order it produces one with the same
\* accumulated values: counts, sums, mean and percentiles, every intent's
\* total cost and count, every span name's average, the unique-user count,
\* the language histogram and the request, warning and error counts.
C26_OrderOfInputsIrrelevant ==
    AggregateReturned =>
        /\ ret.exc = "none"
        /\ \A reports \in Orders(perf_reports), entries \in Orders(log_entries) :
              LET permuted == aggregate_metrics(reports, entries, start_date,
                                                end_date, ret.val.generated_at)
              IN /\ permuted.exc = "none"
                 /\ Accumulated(permuted.val) = Accumulated(ret.val)

=============================================================================
